---- MODULE Spec2Model ----
(***************************************************************************)
(* A model of rusty-nes: the 6502 interpreter (cpu.rs) on the Bus of       *)
(* bus.rs over RAM<65536> (ram.rs), driven as main.rs drives it, and the   *)
(* iNES cartridge loader (cartridge.rs, mapper.rs, memory.rs).             *)
(***************************************************************************)
EXTENDS Integers, Sequences, FiniteSets, TLC

VARIABLES
  cpu,        \* the CPU struct of cpu.rs, its Bus (and the RAM behind it) included
  call,       \* the last call made on the CPU and what it returned
  phase,      \* where the host (main.rs) stands: "loaded", "vector_lo", "vector_hi", "running"
  vector,     \* the start address the host writes to the reset vector
  clocks,     \* how many clock() calls were made
  interrupts, \* how many reset()/irq()/nmi() calls were made
  window,     \* the instruction window opened by the last opcode fetch
  rom,        \* the byte slice handed to Cartridge::new
  cartridge,  \* what Cartridge::new returned: the cartridge the buses share
  cpu_bus,    \* the CpuBus struct of bus/cpu_bus.rs: its RAM and its PPU
  trace       \* what a run started from and the values it has pushed and popped

vars ==
  <<cpu, call, phase, vector, clocks, interrupts, window, rom, cartridge, cpu_bus,
    trace>>

(***************************************************************************)
(* Fixed-width integers                                                    *)
(***************************************************************************)
Byte == 0..255

u8(n) == ((n % 256) + 256) % 256

u16(n) == ((n % 65536) + 65536) % 65536

\* `b as i8`
i8(b) == IF b >= 128 THEN b - 256 ELSE b

RECURSIVE BitAnd(_, _)
BitAnd(p, q) ==
  IF p = 0 \/ q = 0 THEN 0
  ELSE (p % 2) * (q % 2) + 2 * BitAnd(p \div 2, q \div 2)

RECURSIVE BitOr(_, _)
BitOr(p, q) ==
  IF p = 0 THEN q
  ELSE IF q = 0 THEN p
  ELSE (IF p % 2 = 1 \/ q % 2 = 1 THEN 1 ELSE 0) + 2 * BitOr(p \div 2, q \div 2)

RECURSIVE BitXor(_, _)
BitXor(p, q) ==
  IF p = 0 THEN q
  ELSE IF q = 0 THEN p
  ELSE (IF p % 2 = q % 2 THEN 0 ELSE 1) + 2 * BitXor(p \div 2, q \div 2)

(***************************************************************************)
(* cpu.rs constants                                                        *)
(***************************************************************************)
STACK_POINTER_INITIAL_OFFSET == 253
STACK_POINTER_ADDRESS == 256
IRQ_VECTOR_ADDRESS_LO == 65534
IRQ_VECTOR_ADDRESS_HI == 65535
NMI_VECTOR_ADDRESS_LO == 65530
NMI_VECTOR_ADDRESS_HI == 65531
RESET_VECTOR_ADDRESS_LO == 65532
RESET_VECTOR_ADDRESS_HI == 65533

CARRY == 1
ZERO == 2
INTERRUPT == 4
DECIMAL == 8
BREAK == 16
UNUSED == 32
OVERFLOW == 64
NEGATIVE == 128

(***************************************************************************)
(* ram.rs: RAM<SIZE>.  The array is kept sparse: a cell that is absent     *)
(* from the function holds 0, and a cell that holds 0 is always absent, so *)
(* equal arrays are equal functions.                                       *)
(***************************************************************************)
RamSize == 65536

RamNew == [i \in {} |-> 0]

get_index(address) == address % RamSize

RamCell(memory, index) == IF index \in DOMAIN memory THEN memory[index] ELSE 0

RamSet(memory, index, value) ==
  IF value = 0
  THEN [i \in DOMAIN memory \ {index} |-> memory[i]]
  ELSE [i \in DOMAIN memory \cup {index} |-> IF i = index THEN value ELSE memory[i]]

RamRead(memory, address) == RamCell(memory, get_index(address))

RamWrite(memory, address, value) == RamSet(memory, get_index(address), value)

RECURSIVE load_program(_, _, _)
load_program(memory, program, start_address) ==
  IF program = <<>> THEN memory
  ELSE load_program(RamSet(memory, get_index(start_address) + Len(program) - 1,
                           program[Len(program)]),
                    SubSeq(program, 1, Len(program) - 1), start_address)

(***************************************************************************)
(* bus.rs: Bus                                                             *)
(***************************************************************************)
RAM_ADDRESS_LO == 0
RAM_ADDRESS_HI == 1919

BusRead(ram, address) ==
  IF address >= RAM_ADDRESS_LO /\ address <= RAM_ADDRESS_HI
  THEN RamRead(ram, address)
  ELSE 0

BusWrite(ram, address, value) == RamWrite(ram, address, value)

(***************************************************************************)
(* instructions.rs: Opcode::decode.  The documented 6502 opcodes with      *)
(* their base cycle counts; a byte that is none of them decodes to <<>>.   *)
(***************************************************************************)
Op(instruction, addressing_mode, cycles) ==
  [instruction |-> instruction, addressing_mode |-> addressing_mode, cycles |-> cycles]

OpcodeTable ==
  <<
    <<Op("BRK", "Implied", 7)>>,  \* $00
    <<Op("ORA", "IndirectX", 6)>>,  \* $01
    <<>>,  \* $02
    <<>>,  \* $03
    <<>>,  \* $04
    <<Op("ORA", "ZeroPage", 3)>>,  \* $05
    <<Op("ASL", "ZeroPage", 5)>>,  \* $06
    <<>>,  \* $07
    <<Op("PHP", "Implied", 3)>>,  \* $08
    <<Op("ORA", "Immediate", 2)>>,  \* $09
    <<Op("ASL", "Accumulator", 2)>>,  \* $0A
    <<>>,  \* $0B
    <<>>,  \* $0C
    <<Op("ORA", "Absolute", 4)>>,  \* $0D
    <<Op("ASL", "Absolute", 6)>>,  \* $0E
    <<>>,  \* $0F
    <<Op("BPL", "Relative", 2)>>,  \* $10
    <<Op("ORA", "IndirectY", 5)>>,  \* $11
    <<>>,  \* $12
    <<>>,  \* $13
    <<>>,  \* $14
    <<Op("ORA", "ZeroPageX", 4)>>,  \* $15
    <<Op("ASL", "ZeroPageX", 6)>>,  \* $16
    <<>>,  \* $17
    <<Op("CLC", "Implied", 2)>>,  \* $18
    <<Op("ORA", "AbsoluteY", 4)>>,  \* $19
    <<>>,  \* $1A
    <<>>,  \* $1B
    <<>>,  \* $1C
    <<Op("ORA", "AbsoluteX", 4)>>,  \* $1D
    <<Op("ASL", "AbsoluteX", 7)>>,  \* $1E
    <<>>,  \* $1F
    <<Op("JSR", "Absolute", 6)>>,  \* $20
    <<Op("AND", "IndirectX", 6)>>,  \* $21
    <<>>,  \* $22
    <<>>,  \* $23
    <<Op("BIT", "ZeroPage", 3)>>,  \* $24
    <<Op("AND", "ZeroPage", 3)>>,  \* $25
    <<Op("ROL", "ZeroPage", 5)>>,  \* $26
    <<>>,  \* $27
    <<Op("PLP", "Implied", 4)>>,  \* $28
    <<Op("AND", "Immediate", 2)>>,  \* $29
    <<Op("ROL", "Accumulator", 2)>>,  \* $2A
    <<>>,  \* $2B
    <<Op("BIT", "Absolute", 4)>>,  \* $2C
    <<Op("AND", "Absolute", 4)>>,  \* $2D
    <<Op("ROL", "Absolute", 6)>>,  \* $2E
    <<>>,  \* $2F
    <<Op("BMI", "Relative", 2)>>,  \* $30
    <<Op("AND", "IndirectY", 5)>>,  \* $31
    <<>>,  \* $32
    <<>>,  \* $33
    <<>>,  \* $34
    <<Op("AND", "ZeroPageX", 4)>>,  \* $35
    <<Op("ROL", "ZeroPageX", 6)>>,  \* $36
    <<>>,  \* $37
    <<Op("SEC", "Implied", 2)>>,  \* $38
    <<Op("AND", "AbsoluteY", 4)>>,  \* $39
    <<>>,  \* $3A
    <<>>,  \* $3B
    <<>>,  \* $3C
    <<Op("AND", "AbsoluteX", 4)>>,  \* $3D
    <<Op("ROL", "AbsoluteX", 7)>>,  \* $3E
    <<>>,  \* $3F
    <<Op("RTI", "Implied", 6)>>,  \* $40
    <<Op("EOR", "IndirectX", 6)>>,  \* $41
    <<>>,  \* $42
    <<>>,  \* $43
    <<>>,  \* $44
    <<Op("EOR", "ZeroPage", 3)>>,  \* $45
    <<Op("LSR", "ZeroPage", 5)>>,  \* $46
    <<>>,  \* $47
    <<Op("PHA", "Implied", 3)>>,  \* $48
    <<Op("EOR", "Immediate", 2)>>,  \* $49
    <<Op("LSR", "Accumulator", 2)>>,  \* $4A
    <<>>,  \* $4B
    <<Op("JMP", "Absolute", 3)>>,  \* $4C
    <<Op("EOR", "Absolute", 4)>>,  \* $4D
    <<Op("LSR", "Absolute", 6)>>,  \* $4E
    <<>>,  \* $4F
    <<Op("BVC", "Relative", 2)>>,  \* $50
    <<Op("EOR", "IndirectY", 5)>>,  \* $51
    <<>>,  \* $52
    <<>>,  \* $53
    <<>>,  \* $54
    <<Op("EOR", "ZeroPageX", 4)>>,  \* $55
    <<Op("LSR", "ZeroPageX", 6)>>,  \* $56
    <<>>,  \* $57
    <<Op("CLI", "Implied", 2)>>,  \* $58
    <<Op("EOR", "AbsoluteY", 4)>>,  \* $59
    <<>>,  \* $5A
    <<>>,  \* $5B
    <<>>,  \* $5C
    <<Op("EOR", "AbsoluteX", 4)>>,  \* $5D
    <<Op("LSR", "AbsoluteX", 7)>>,  \* $5E
    <<>>,  \* $5F
    <<Op("RTS", "Implied", 6)>>,  \* $60
    <<Op("ADC", "IndirectX", 6)>>,  \* $61
    <<>>,  \* $62
    <<>>,  \* $63
    <<>>,  \* $64
    <<Op("ADC", "ZeroPage", 3)>>,  \* $65
    <<Op("ROR", "ZeroPage", 5)>>,  \* $66
    <<>>,  \* $67
    <<Op("PLA", "Implied", 4)>>,  \* $68
    <<Op("ADC", "Immediate", 2)>>,  \* $69
    <<Op("ROR", "Accumulator", 2)>>,  \* $6A
    <<>>,  \* $6B
    <<Op("JMP", "Indirect", 5)>>,  \* $6C
    <<Op("ADC", "Absolute", 4)>>,  \* $6D
    <<Op("ROR", "Absolute", 6)>>,  \* $6E
    <<>>,  \* $6F
    <<Op("BVS", "Relative", 2)>>,  \* $70
    <<Op("ADC", "IndirectY", 5)>>,  \* $71
    <<>>,  \* $72
    <<>>,  \* $73
    <<>>,  \* $74
    <<Op("ADC", "ZeroPageX", 4)>>,  \* $75
    <<Op("ROR", "ZeroPageX", 6)>>,  \* $76
    <<>>,  \* $77
    <<Op("SEI", "Implied", 2)>>,  \* $78
    <<Op("ADC", "AbsoluteY", 4)>>,  \* $79
    <<>>,  \* $7A
    <<>>,  \* $7B
    <<>>,  \* $7C
    <<Op("ADC", "AbsoluteX", 4)>>,  \* $7D
    <<Op("ROR", "AbsoluteX", 7)>>,  \* $7E
    <<>>,  \* $7F
    <<>>,  \* $80
    <<Op("STA", "IndirectX", 6)>>,  \* $81
    <<>>,  \* $82
    <<>>,  \* $83
    <<Op("STY", "ZeroPage", 3)>>,  \* $84
    <<Op("STA", "ZeroPage", 3)>>,  \* $85
    <<Op("STX", "ZeroPage", 3)>>,  \* $86
    <<>>,  \* $87
    <<Op("DEY", "Implied", 2)>>,  \* $88
    <<>>,  \* $89
    <<Op("TXA", "Implied", 2)>>,  \* $8A
    <<>>,  \* $8B
    <<Op("STY", "Absolute", 4)>>,  \* $8C
    <<Op("STA", "Absolute", 4)>>,  \* $8D
    <<Op("STX", "Absolute", 4)>>,  \* $8E
    <<>>,  \* $8F
    <<Op("BCC", "Relative", 2)>>,  \* $90
    <<Op("STA", "IndirectY", 6)>>,  \* $91
    <<>>,  \* $92
    <<>>,  \* $93
    <<Op("STY", "ZeroPageX", 4)>>,  \* $94
    <<Op("STA", "ZeroPageX", 4)>>,  \* $95
    <<Op("STX", "ZeroPageY", 4)>>,  \* $96
    <<>>,  \* $97
    <<Op("TYA", "Implied", 2)>>,  \* $98
    <<Op("STA", "AbsoluteY", 5)>>,  \* $99
    <<Op("TXS", "Implied", 2)>>,  \* $9A
    <<>>,  \* $9B
    <<>>,  \* $9C
    <<Op("STA", "AbsoluteX", 5)>>,  \* $9D
    <<>>,  \* $9E
    <<>>,  \* $9F
    <<Op("LDY", "Immediate", 2)>>,  \* $A0
    <<Op("LDA", "IndirectX", 6)>>,  \* $A1
    <<Op("LDX", "Immediate", 2)>>,  \* $A2
    <<>>,  \* $A3
    <<Op("LDY", "ZeroPage", 3)>>,  \* $A4
    <<Op("LDA", "ZeroPage", 3)>>,  \* $A5
    <<Op("LDX", "ZeroPage", 3)>>,  \* $A6
    <<>>,  \* $A7
    <<Op("TAY", "Implied", 2)>>,  \* $A8
    <<Op("LDA", "Immediate", 2)>>,  \* $A9
    <<Op("TAX", "Implied", 2)>>,  \* $AA
    <<>>,  \* $AB
    <<Op("LDY", "Absolute", 4)>>,  \* $AC
    <<Op("LDA", "Absolute", 4)>>,  \* $AD
    <<Op("LDX", "Absolute", 4)>>,  \* $AE
    <<>>,  \* $AF
    <<Op("BCS", "Relative", 2)>>,  \* $B0
    <<Op("LDA", "IndirectY", 5)>>,  \* $B1
    <<>>,  \* $B2
    <<>>,  \* $B3
    <<Op("LDY", "ZeroPageX", 4)>>,  \* $B4
    <<Op("LDA", "ZeroPageX", 4)>>,  \* $B5
    <<Op("LDX", "ZeroPageY", 4)>>,  \* $B6
    <<>>,  \* $B7
    <<Op("CLV", "Implied", 2)>>,  \* $B8
    <<Op("LDA", "AbsoluteY", 4)>>,  \* $B9
    <<Op("TSX", "Implied", 2)>>,  \* $BA
    <<>>,  \* $BB
    <<Op("LDY", "AbsoluteX", 4)>>,  \* $BC
    <<Op("LDA", "AbsoluteX", 4)>>,  \* $BD
    <<Op("LDX", "AbsoluteY", 4)>>,  \* $BE
    <<>>,  \* $BF
    <<Op("CPY", "Immediate", 2)>>,  \* $C0
    <<Op("CMP", "IndirectX", 6)>>,  \* $C1
    <<>>,  \* $C2
    <<>>,  \* $C3
    <<Op("CPY", "ZeroPage", 3)>>,  \* $C4
    <<Op("CMP", "ZeroPage", 3)>>,  \* $C5
    <<Op("DEC", "ZeroPage", 5)>>,  \* $C6
    <<>>,  \* $C7
    <<Op("INY", "Implied", 2)>>,  \* $C8
    <<Op("CMP", "Immediate", 2)>>,  \* $C9
    <<Op("DEX", "Implied", 2)>>,  \* $CA
    <<>>,  \* $CB
    <<Op("CPY", "Absolute", 4)>>,  \* $CC
    <<Op("CMP", "Absolute", 4)>>,  \* $CD
    <<Op("DEC", "Absolute", 6)>>,  \* $CE
    <<>>,  \* $CF
    <<Op("BNE", "Relative", 2)>>,  \* $D0
    <<Op("CMP", "IndirectY", 5)>>,  \* $D1
    <<>>,  \* $D2
    <<>>,  \* $D3
    <<>>,  \* $D4
    <<Op("CMP", "ZeroPageX", 4)>>,  \* $D5
    <<Op("DEC", "ZeroPageX", 6)>>,  \* $D6
    <<>>,  \* $D7
    <<Op("CLD", "Implied", 2)>>,  \* $D8
    <<Op("CMP", "AbsoluteY", 4)>>,  \* $D9
    <<>>,  \* $DA
    <<>>,  \* $DB
    <<>>,  \* $DC
    <<Op("CMP", "AbsoluteX", 4)>>,  \* $DD
    <<Op("DEC", "AbsoluteX", 7)>>,  \* $DE
    <<>>,  \* $DF
    <<Op("CPX", "Immediate", 2)>>,  \* $E0
    <<Op("SBC", "IndirectX", 6)>>,  \* $E1
    <<>>,  \* $E2
    <<>>,  \* $E3
    <<Op("CPX", "ZeroPage", 3)>>,  \* $E4
    <<Op("SBC", "ZeroPage", 3)>>,  \* $E5
    <<Op("INC", "ZeroPage", 5)>>,  \* $E6
    <<>>,  \* $E7
    <<Op("INX", "Implied", 2)>>,  \* $E8
    <<Op("SBC", "Immediate", 2)>>,  \* $E9
    <<Op("NOP", "Implied", 2)>>,  \* $EA
    <<>>,  \* $EB
    <<Op("CPX", "Absolute", 4)>>,  \* $EC
    <<Op("SBC", "Absolute", 4)>>,  \* $ED
    <<Op("INC", "Absolute", 6)>>,  \* $EE
    <<>>,  \* $EF
    <<Op("BEQ", "Relative", 2)>>,  \* $F0
    <<Op("SBC", "IndirectY", 5)>>,  \* $F1
    <<>>,  \* $F2
    <<>>,  \* $F3
    <<>>,  \* $F4
    <<Op("SBC", "ZeroPageX", 4)>>,  \* $F5
    <<Op("INC", "ZeroPageX", 6)>>,  \* $F6
    <<>>,  \* $F7
    <<Op("SED", "Implied", 2)>>,  \* $F8
    <<Op("SBC", "AbsoluteY", 4)>>,  \* $F9
    <<>>,  \* $FA
    <<>>,  \* $FB
    <<>>,  \* $FC
    <<Op("SBC", "AbsoluteX", 4)>>,  \* $FD
    <<Op("INC", "AbsoluteX", 7)>>,  \* $FE
    <<>>  \* $FF
  >>

Decode(byte) == OpcodeTable[byte + 1]

(***************************************************************************)
(* cpu.rs: CPU.  A CPU value m has the struct's fields (its Bus is the     *)
(* field bus, the RAM array behind it) and a record of the current call:   *)
(* reads, the addresses read through the bus, writes, the                  *)
(* <<address, value>> pairs written through it, in order, and result, what *)
(* the call returns ("Ok", or the AppError).                               *)
(***************************************************************************)
Rd(m, address) == [m EXCEPT !.reads = Append(@, address)]

Wr(m, address, value) ==
  [m EXCEPT !.bus = BusWrite(@, address, value),
            !.writes = Append(@, <<address, value>>)]

Enter(m) == [m EXCEPT !.reads = <<>>, !.writes = <<>>, !.result = "Ok"]

get_bytes_to_address(hi, lo) == hi * 256 + lo

new(bus) ==
  LET lo == BusRead(bus, RESET_VECTOR_ADDRESS_LO)
      hi == BusRead(bus, RESET_VECTOR_ADDRESS_HI)
  IN [a |-> 0, x |-> 0, y |-> 0,
      sp |-> STACK_POINTER_INITIAL_OFFSET,
      pc |-> BitOr(hi * 256, lo),
      status |-> BitOr(UNUSED, INTERRUPT),
      bus |-> bus,
      cycles |-> 0,
      absolute_address |-> 0,
      relative_address |-> 0,
      reads |-> <<RESET_VECTOR_ADDRESS_LO, RESET_VECTOR_ADDRESS_HI>>,
      writes |-> <<>>,
      result |-> "Ok"]

increment_pc(m) == [m EXCEPT !.pc = u16(@ + 1)]

get_status_flag(m, flag) == BitAnd(m.status, flag) = flag

\* A faulty variant of set_status_flag: clearing a flag clears the lower flags too.
set_status_flag_clears_below(m, flag, condition) ==
  IF condition
  THEN [m EXCEPT !.status = BitOr(@, flag)]
  ELSE [m EXCEPT !.status = BitOr(@ - (@ % (2 * flag)), BitAnd(@, UNUSED) % (2 * flag))]

set_status_flag(m, flag, condition) ==
  IF condition
  THEN [m EXCEPT !.status = BitOr(@, flag)]
  ELSE [m EXCEPT !.status = @ - BitAnd(@, flag)]

is_zero(value) == value = 0

is_negative(value) == BitAnd(value, 128) # 0

is_overflow(value) == BitAnd(value, 64) # 0

is_bit0_set(value) == BitAnd(value, 1) # 0

\* A faulty variant of update_zero_negative_flags: N is taken from bit 6.
update_zero_negative_flags_bit6(m, value) ==
  set_status_flag(set_status_flag(m, ZERO, is_zero(value)), NEGATIVE, is_overflow(value))

update_zero_negative_flags(m, value) ==
  set_status_flag(set_status_flag(m, ZERO, is_zero(value)), NEGATIVE, is_negative(value))

get_stack_address(m) == BitOr(STACK_POINTER_ADDRESS, m.sp)

\* A faulty variant of write_to_stack: sp is decremented before the write.
write_to_stack_decrement_first(m, value) ==
  LET m1 == [m EXCEPT !.sp = u8(@ - 1)]
  IN Wr(m1, get_stack_address(m1), value)

write_to_stack(m, value) ==
  [Wr(m, get_stack_address(m), value) EXCEPT !.sp = u8(@ - 1)]

\* read_from_stack returns a value and moves sp: read_from_stack(m) is the CPU
\* after the call and stack_value(m) the value the call returns
read_from_stack(m) ==
  LET m1 == [m EXCEPT !.sp = u8(@ + 1)]
  IN Rd(m1, get_stack_address(m1))

stack_value(m) == BusRead(m.bus, get_stack_address([m EXCEPT !.sp = u8(@ + 1)]))

read_a_or_absolute(m, addressing_mode) ==
  IF addressing_mode = "Accumulator" THEN m.a ELSE BusRead(m.bus, m.absolute_address)

\* the bus read read_a_or_absolute makes, if any
note_a_or_absolute(m, addressing_mode) ==
  IF addressing_mode = "Accumulator" THEN m ELSE Rd(m, m.absolute_address)

write_a_or_absolute(m, addressing_mode, value) ==
  IF addressing_mode = "Accumulator"
  THEN [m EXCEPT !.a = value]
  ELSE Wr(m, m.absolute_address, value)

\* the two-byte little-endian operand at pc, and the CPU after fetching it
operand16(m) ==
  get_bytes_to_address(BusRead(m.bus, u16(m.pc + 1)), BusRead(m.bus, m.pc))

\* A faulty variant of fetch16: the second operand byte is read but not consumed.
fetch16_one_increment(m) ==
  LET m1 == increment_pc(Rd(m, m.pc))
  IN Rd(m1, m1.pc)

fetch16(m) ==
  LET m1 == increment_pc(Rd(m, m.pc))
  IN increment_pc(Rd(m1, m1.pc))

\* A faulty variant of execute_addressing_mode: ZeroPageX adds X in 16 bits and
\* IndirectY reads its pointer's high byte at o + 1 in 16 bits.
execute_addressing_mode_no_zero_page_wrap(m, addressing_mode) ==
  CASE addressing_mode = "Implied" -> m
    [] addressing_mode = "Accumulator" -> m
    [] addressing_mode = "Immediate" ->
         increment_pc([m EXCEPT !.absolute_address = m.pc])
    [] addressing_mode = "Relative" ->
         LET offset == i8(BusRead(m.bus, m.pc))
         IN [increment_pc(Rd(m, m.pc)) EXCEPT !.relative_address = offset]
    [] addressing_mode = "ZeroPage" ->
         [increment_pc(Rd(m, m.pc)) EXCEPT !.absolute_address = BusRead(m.bus, m.pc)]
    [] addressing_mode = "ZeroPageX" ->
         [increment_pc(Rd(m, m.pc)) EXCEPT
            !.absolute_address = u16(BusRead(m.bus, m.pc) + m.x)]
    [] addressing_mode = "ZeroPageY" ->
         [increment_pc(Rd(m, m.pc)) EXCEPT
            !.absolute_address = u8(BusRead(m.bus, m.pc) + m.y)]
    [] addressing_mode = "Absolute" ->
         [fetch16(m) EXCEPT !.absolute_address = operand16(m)]
    [] addressing_mode = "AbsoluteX" ->
         [fetch16(m) EXCEPT !.absolute_address = u16(operand16(m) + m.x)]
    [] addressing_mode = "AbsoluteY" ->
         [fetch16(m) EXCEPT !.absolute_address = u16(operand16(m) + m.y)]
    [] addressing_mode = "Indirect" ->
         LET ptr == operand16(m)
             lo == BusRead(m.bus, ptr)
             hi == BusRead(m.bus, u16(ptr + 1))
         IN [Rd(Rd(fetch16(m), ptr), u16(ptr + 1)) EXCEPT
               !.absolute_address = get_bytes_to_address(hi, lo)]
    [] addressing_mode = "IndirectX" ->
         LET base == BusRead(m.bus, m.pc)
             ptr == u8(base + m.x)
             lo == BusRead(m.bus, BitAnd(ptr, 255))
             hi == BusRead(m.bus, BitAnd(u16(ptr + 1), 255))
         IN [Rd(Rd(increment_pc(Rd(m, m.pc)), BitAnd(ptr, 255)),
                BitAnd(u16(ptr + 1), 255)) EXCEPT
               !.absolute_address = get_bytes_to_address(hi, lo)]
    [] addressing_mode = "IndirectY" ->
         LET base == BusRead(m.bus, m.pc)
             lo == BusRead(m.bus, base)
             hi == BusRead(m.bus, u16(base + 1))
             ptr == get_bytes_to_address(hi, lo)
         IN [Rd(Rd(increment_pc(Rd(m, m.pc)), base), u16(base + 1)) EXCEPT
               !.absolute_address = u16(ptr + m.y)]

execute_addressing_mode(m, addressing_mode) ==
  CASE addressing_mode = "Implied" -> m
    [] addressing_mode = "Accumulator" -> m
    [] addressing_mode = "Immediate" ->
         increment_pc([m EXCEPT !.absolute_address = m.pc])
    [] addressing_mode = "Relative" ->
         LET offset == i8(BusRead(m.bus, m.pc))
         IN [increment_pc(Rd(m, m.pc)) EXCEPT !.relative_address = offset]
    [] addressing_mode = "ZeroPage" ->
         [increment_pc(Rd(m, m.pc)) EXCEPT !.absolute_address = BusRead(m.bus, m.pc)]
    [] addressing_mode = "ZeroPageX" ->
         [increment_pc(Rd(m, m.pc)) EXCEPT
            !.absolute_address = u8(BusRead(m.bus, m.pc) + m.x)]
    [] addressing_mode = "ZeroPageY" ->
         [increment_pc(Rd(m, m.pc)) EXCEPT
            !.absolute_address = u8(BusRead(m.bus, m.pc) + m.y)]
    [] addressing_mode = "Absolute" ->
         [fetch16(m) EXCEPT !.absolute_address = operand16(m)]
    [] addressing_mode = "AbsoluteX" ->
         [fetch16(m) EXCEPT !.absolute_address = u16(operand16(m) + m.x)]
    [] addressing_mode = "AbsoluteY" ->
         [fetch16(m) EXCEPT !.absolute_address = u16(operand16(m) + m.y)]
    [] addressing_mode = "Indirect" ->
         LET ptr == operand16(m)
             lo == BusRead(m.bus, ptr)
             hi == BusRead(m.bus, u16(ptr + 1))
         IN [Rd(Rd(fetch16(m), ptr), u16(ptr + 1)) EXCEPT
               !.absolute_address = get_bytes_to_address(hi, lo)]
    [] addressing_mode = "IndirectX" ->
         LET base == BusRead(m.bus, m.pc)
             ptr == u8(base + m.x)
             lo == BusRead(m.bus, BitAnd(ptr, 255))
             hi == BusRead(m.bus, BitAnd(u16(ptr + 1), 255))
         IN [Rd(Rd(increment_pc(Rd(m, m.pc)), BitAnd(ptr, 255)),
                BitAnd(u16(ptr + 1), 255)) EXCEPT
               !.absolute_address = get_bytes_to_address(hi, lo)]
    [] addressing_mode = "IndirectY" ->
         LET base == BusRead(m.bus, m.pc)
             lo == BusRead(m.bus, base)
             hi == BusRead(m.bus, BitAnd(u8(base + 1), 255))
             ptr == get_bytes_to_address(hi, lo)
         IN [Rd(Rd(increment_pc(Rd(m, m.pc)), base), BitAnd(u8(base + 1), 255)) EXCEPT
               !.absolute_address = u16(ptr + m.y)]

\* the operand byte an instruction reads at absolute_address
operand(m) == BusRead(m.bus, m.absolute_address)

load(m, register) ==
  LET m1 == [Rd(m, m.absolute_address) EXCEPT ![register] = operand(m)]
  IN update_zero_negative_flags(m1, m1[register])

transfer(m, to, value) ==
  LET m1 == [m EXCEPT ![to] = value]
  IN update_zero_negative_flags(m1, m1[to])

logic(m, result) ==
  LET m1 == [Rd(m, m.absolute_address) EXCEPT !.a = result]
  IN update_zero_negative_flags(m1, m1.a)

compare(m, register) ==
  LET value == operand(m)
      result == u8(m[register] - value)
      m1 == set_status_flag(Rd(m, m.absolute_address), CARRY, m[register] >= value)
  IN update_zero_negative_flags(m1, result)

\* A faulty variant of branch: the offset is added without its sign.
branch_offset_unsigned(m, taken) ==
  IF taken
  THEN LET target == u16(m.pc + u8(m.relative_address))
       IN [m EXCEPT !.absolute_address = target, !.pc = target]
  ELSE m

branch(m, taken) ==
  IF taken
  THEN LET target == u16(m.pc + u16(m.relative_address))
       IN [m EXCEPT !.absolute_address = target, !.pc = target]
  ELSE m

\* A faulty variant of adc: overflow is set whenever the sign of A changes.
adc_overflow_on_sign_change(m) ==
  LET value == operand(m)
      carry == IF get_status_flag(m, CARRY) THEN 1 ELSE 0
      result == m.a + value + carry
      m1 == set_status_flag(Rd(m, m.absolute_address), CARRY, result > 255)
      m2 == set_status_flag(m1, OVERFLOW, BitAnd(BitXor(m.a, u8(result)), 128) # 0)
      m3 == [m2 EXCEPT !.a = u8(result)]
  IN update_zero_negative_flags(m3, m3.a)

adc(m) ==
  LET value == operand(m)
      carry == IF get_status_flag(m, CARRY) THEN 1 ELSE 0
      result == m.a + value + carry
      m1 == set_status_flag(Rd(m, m.absolute_address), CARRY, result > 255)
      m2 == set_status_flag(m1, OVERFLOW,
              BitAnd(BitXor(m.a, value), 128) = 0
              /\ BitAnd(BitXor(m.a, u8(result)), 128) # 0)
      m3 == [m2 EXCEPT !.a = u8(result)]
  IN update_zero_negative_flags(m3, m3.a)

\* A faulty variant of sbc: the carry is set when the result is not negative
\* as a signed byte.
sbc_carry_from_sign(m) ==
  LET value == operand(m)
      carry == IF get_status_flag(m, CARRY) THEN 1 ELSE 0
      result == m.a - value - (1 - carry)
      m1 == set_status_flag(Rd(m, m.absolute_address), CARRY, u8(result) < 128)
      m2 == set_status_flag(m1, OVERFLOW,
              BitAnd(BitXor(m.a, value), 128) # 0
              /\ BitAnd(BitXor(m.a, u8(result)), 128) # 0)
      m3 == [m2 EXCEPT !.a = u8(result)]
  IN update_zero_negative_flags(m3, m3.a)

\* A faulty variant of sbc: the borrow (the clear carry) is not subtracted.
sbc_borrow_ignored(m) ==
  LET value == operand(m)
      result == m.a - value
      m1 == set_status_flag(Rd(m, m.absolute_address), CARRY, result >= 0)
      m2 == set_status_flag(m1, OVERFLOW,
              BitAnd(BitXor(m.a, value), 128) # 0
              /\ BitAnd(BitXor(m.a, u8(result)), 128) # 0)
      m3 == [m2 EXCEPT !.a = u8(result)]
  IN update_zero_negative_flags(m3, m3.a)

sbc(m) ==
  LET value == operand(m)
      carry == IF get_status_flag(m, CARRY) THEN 1 ELSE 0
      result == m.a - value - (1 - carry)
      m1 == set_status_flag(Rd(m, m.absolute_address), CARRY, result >= 0)
      m2 == set_status_flag(m1, OVERFLOW,
              BitAnd(BitXor(m.a, value), 128) # 0
              /\ BitAnd(BitXor(m.a, u8(result)), 128) # 0)
      m3 == [m2 EXCEPT !.a = u8(result)]
  IN update_zero_negative_flags(m3, m3.a)

asl(m, addressing_mode) ==
  LET value == read_a_or_absolute(m, addressing_mode)
      result == u8(value * 2)
      m1 == set_status_flag(note_a_or_absolute(m, addressing_mode), CARRY,
                            is_negative(value))
      m2 == write_a_or_absolute(m1, addressing_mode, result)
  IN update_zero_negative_flags(m2, result)

lsr(m, addressing_mode) ==
  LET value == read_a_or_absolute(m, addressing_mode)
      result == value \div 2
      m1 == set_status_flag(note_a_or_absolute(m, addressing_mode), CARRY,
                            is_bit0_set(value))
      m2 == write_a_or_absolute(m1, addressing_mode, result)
  IN update_zero_negative_flags(m2, result)

rol(m, addressing_mode) ==
  LET value == read_a_or_absolute(m, addressing_mode)
      old_carry == IF get_status_flag(m, CARRY) THEN 1 ELSE 0
      m1 == set_status_flag(note_a_or_absolute(m, addressing_mode), CARRY,
                            is_negative(value))
      result == BitOr(u8(value * 2), old_carry)
      m2 == update_zero_negative_flags(m1, result)
  IN write_a_or_absolute(m2, addressing_mode, result)

ror(m, addressing_mode) ==
  LET value == read_a_or_absolute(m, addressing_mode)
      old_carry == IF get_status_flag(m, CARRY) THEN 128 ELSE 0
      m1 == set_status_flag(note_a_or_absolute(m, addressing_mode), CARRY,
                            is_bit0_set(value))
      result == BitOr(value \div 2, old_carry)
      m2 == update_zero_negative_flags(m1, result)
  IN write_a_or_absolute(m2, addressing_mode, result)

inc_dec(m, delta) ==
  LET value == u8(operand(m) + delta)
      m1 == Wr(Rd(m, m.absolute_address), m.absolute_address, value)
  IN update_zero_negative_flags(m1, value)

php(m) == write_to_stack(m, BitOr(BitOr(m.status, BREAK), UNUSED))

pla(m) ==
  LET m1 == [read_from_stack(m) EXCEPT !.a = stack_value(m)]
  IN update_zero_negative_flags(m1, m1.a)

\* A faulty variant of plp: the pulled byte becomes the status as it is.
plp_keeps_pulled_bits(m) == [read_from_stack(m) EXCEPT !.status = stack_value(m)]

plp(m) ==
  LET m1 == [read_from_stack(m) EXCEPT !.status = stack_value(m)]
  IN set_status_flag(set_status_flag(m1, BREAK, FALSE), UNUSED, TRUE)

jsr(m) ==
  LET return_address == u16(m.pc - 1)
      m1 == write_to_stack(m, return_address \div 256)
      m2 == write_to_stack(m1, return_address % 256)
  IN [m2 EXCEPT !.pc = m.absolute_address]

\* A faulty variant of rts: the pulled address is not incremented.
rts_no_increment(m) ==
  LET lo == stack_value(m)
      m1 == read_from_stack(m)
      hi == stack_value(m1)
      m2 == read_from_stack(m1)
  IN [m2 EXCEPT !.pc = get_bytes_to_address(hi, lo)]

rts(m) ==
  LET lo == stack_value(m)
      m1 == read_from_stack(m)
      hi == stack_value(m1)
      m2 == read_from_stack(m1)
  IN [m2 EXCEPT !.pc = u16(get_bytes_to_address(hi, lo) + 1)]

\* A faulty variant of rti: PC is pulled high byte first.
rti_high_byte_first(m) ==
  LET m1 == [read_from_stack(m) EXCEPT !.status = stack_value(m)]
      m2 == set_status_flag(set_status_flag(m1, BREAK, FALSE), UNUSED, TRUE)
      hi == stack_value(m2)
      m3 == read_from_stack(m2)
      lo == stack_value(m3)
      m4 == read_from_stack(m3)
  IN [m4 EXCEPT !.pc = get_bytes_to_address(hi, lo)]

rti(m) ==
  LET m1 == [read_from_stack(m) EXCEPT !.status = stack_value(m)]
      m2 == set_status_flag(set_status_flag(m1, BREAK, FALSE), UNUSED, TRUE)
      lo == stack_value(m2)
      m3 == read_from_stack(m2)
      hi == stack_value(m3)
      m4 == read_from_stack(m3)
  IN [m4 EXCEPT !.pc = get_bytes_to_address(hi, lo)]

brk(m) ==
  LET return_address == u16(m.pc + 1)
      m1 == write_to_stack(m, return_address \div 256)
      m2 == write_to_stack(m1, return_address % 256)
      m3 == write_to_stack(m2, BitOr(BitOr(m.status, BREAK), UNUSED))
      m4 == set_status_flag(m3, INTERRUPT, TRUE)
      lo == BusRead(m4.bus, IRQ_VECTOR_ADDRESS_LO)
      hi == BusRead(m4.bus, IRQ_VECTOR_ADDRESS_HI)
  IN [Rd(Rd(m4, IRQ_VECTOR_ADDRESS_LO), IRQ_VECTOR_ADDRESS_HI) EXCEPT
        !.pc = get_bytes_to_address(hi, lo)]

bit(m) ==
  LET value == operand(m)
      m1 == update_zero_negative_flags(Rd(m, m.absolute_address), BitAnd(m.a, value))
      m2 == set_status_flag(m1, NEGATIVE, is_negative(value))
  IN set_status_flag(m2, OVERFLOW, is_overflow(value))

execute_instruction(m, instruction, addressing_mode) ==
  CASE instruction = "NOP" -> m
    [] instruction = "CLC" -> set_status_flag(m, CARRY, FALSE)
    [] instruction = "CLD" -> set_status_flag(m, DECIMAL, FALSE)
    [] instruction = "CLI" -> set_status_flag(m, INTERRUPT, FALSE)
    [] instruction = "CLV" -> set_status_flag(m, OVERFLOW, FALSE)
    [] instruction = "SEC" -> set_status_flag(m, CARRY, TRUE)
    [] instruction = "SED" -> set_status_flag(m, DECIMAL, TRUE)
    [] instruction = "SEI" -> set_status_flag(m, INTERRUPT, TRUE)
    [] instruction = "TAX" -> transfer(m, "x", m.a)
    [] instruction = "TAY" -> transfer(m, "y", m.a)
    [] instruction = "TXA" -> transfer(m, "a", m.x)
    [] instruction = "TYA" -> transfer(m, "a", m.y)
    [] instruction = "TSX" -> transfer(m, "x", m.sp)
    [] instruction = "TXS" -> [m EXCEPT !.sp = m.x]
    [] instruction = "INX" -> transfer(m, "x", u8(m.x + 1))
    [] instruction = "INY" -> transfer(m, "y", u8(m.y + 1))
    [] instruction = "DEX" -> transfer(m, "x", u8(m.x - 1))
    [] instruction = "DEY" -> transfer(m, "y", u8(m.y - 1))
    [] instruction = "LDA" -> load(m, "a")
    [] instruction = "LDX" -> load(m, "x")
    [] instruction = "LDY" -> load(m, "y")
    [] instruction = "STA" -> Wr(m, m.absolute_address, m.a)
    [] instruction = "STX" -> Wr(m, m.absolute_address, m.x)
    [] instruction = "STY" -> Wr(m, m.absolute_address, m.y)
    [] instruction = "AND" -> logic(m, BitAnd(m.a, operand(m)))
    [] instruction = "ORA" -> logic(m, BitOr(m.a, operand(m)))
    [] instruction = "EOR" -> logic(m, BitXor(m.a, operand(m)))
    [] instruction = "CMP" -> compare(m, "a")
    [] instruction = "CPX" -> compare(m, "x")
    [] instruction = "CPY" -> compare(m, "y")
    [] instruction = "BCS" -> branch(m, get_status_flag(m, CARRY))
    [] instruction = "BCC" -> branch(m, ~get_status_flag(m, CARRY))
    [] instruction = "BEQ" -> branch(m, get_status_flag(m, ZERO))
    [] instruction = "BMI" -> branch(m, get_status_flag(m, NEGATIVE))
    [] instruction = "BNE" -> branch(m, ~get_status_flag(m, ZERO))
    [] instruction = "BPL" -> branch(m, ~get_status_flag(m, NEGATIVE))
    [] instruction = "BVC" -> branch(m, ~get_status_flag(m, OVERFLOW))
    [] instruction = "BVS" -> branch(m, get_status_flag(m, OVERFLOW))
    [] instruction = "ADC" -> adc(m)
    [] instruction = "SBC" -> sbc(m)
    [] instruction = "ASL" -> asl(m, addressing_mode)
    [] instruction = "LSR" -> lsr(m, addressing_mode)
    [] instruction = "ROL" -> rol(m, addressing_mode)
    [] instruction = "ROR" -> ror(m, addressing_mode)
    [] instruction = "INC" -> inc_dec(m, 1)
    [] instruction = "DEC" -> inc_dec(m, -1)
    [] instruction = "JMP" -> [m EXCEPT !.pc = m.absolute_address]
    [] instruction = "PHA" -> write_to_stack(m, m.a)
    [] instruction = "PHP" -> php(m)
    [] instruction = "PLA" -> pla(m)
    [] instruction = "PLP" -> plp(m)
    [] instruction = "JSR" -> jsr(m)
    [] instruction = "RTS" -> rts(m)
    [] instruction = "RTI" -> rti(m)
    [] instruction = "BRK" -> brk(m)
    [] instruction = "BIT" -> bit(m)

\* A faulty variant of open_instruction: a taken branch costs one more cycle
\* than the base count of its decode entry.
open_instruction_branch_penalty(m, opcode) ==
  LET m1 == increment_pc(Rd(m, m.pc))
      m2 == [m1 EXCEPT !.cycles = opcode.cycles]
      m3 == execute_addressing_mode(m2, opcode.addressing_mode)
      m4 == execute_instruction(m3, opcode.instruction, opcode.addressing_mode)
  IN IF opcode.addressing_mode = "Relative" /\ m4.pc # m3.pc
     THEN [m4 EXCEPT !.cycles = @ + 1]
     ELSE m4

\* the Some(opcode) arm of clock(): m is the CPU before the opcode fetch
open_instruction(m, opcode) ==
  LET m1 == increment_pc(Rd(m, m.pc))
      m2 == [m1 EXCEPT !.cycles = opcode.cycles]
      m3 == execute_addressing_mode(m2, opcode.addressing_mode)
  IN execute_instruction(m3, opcode.instruction, opcode.addressing_mode)

\* self.cycles -= 1; Ok(())
tick(m) == [m EXCEPT !.cycles = @ - 1, !.result = "Ok"]

\* A faulty variant of clock: the PC is incremented on every tick, not only
\* on the tick that fetches.
clock_pc_every_tick(m) ==
  IF m.cycles = 0
  THEN LET decoded == Decode(BusRead(m.bus, m.pc))
       IN IF decoded # <<>>
          THEN tick(open_instruction(m, decoded[1]))
          ELSE [increment_pc(Rd(m, m.pc)) EXCEPT !.result = "InvalidOpcode"]
  ELSE tick(increment_pc(m))

\* A faulty variant of clock: the PC is incremented only once the byte has
\* decoded, so an unknown byte is fetched again and again.
clock_pc_after_decode(m) ==
  IF m.cycles = 0
  THEN LET decoded == Decode(BusRead(m.bus, m.pc))
       IN IF decoded # <<>>
          THEN tick(open_instruction(m, decoded[1]))
          ELSE [Rd(m, m.pc) EXCEPT !.result = "InvalidOpcode"]
  ELSE tick(m)

clock(m) ==
  IF m.cycles = 0
  THEN LET decoded == Decode(BusRead(m.bus, m.pc))
       IN IF decoded # <<>>
          THEN tick(open_instruction(m, decoded[1]))
          ELSE [increment_pc(Rd(m, m.pc)) EXCEPT !.result = "InvalidOpcode"]
  ELSE tick(m)

reset(m) ==
  LET lo == BusRead(m.bus, RESET_VECTOR_ADDRESS_LO)
      hi == BusRead(m.bus, RESET_VECTOR_ADDRESS_HI)
  IN [Rd(Rd(m, RESET_VECTOR_ADDRESS_LO), RESET_VECTOR_ADDRESS_HI) EXCEPT
        !.a = 0, !.x = 0, !.y = 0,
        !.sp = STACK_POINTER_INITIAL_OFFSET,
        !.pc = get_bytes_to_address(hi, lo),
        !.absolute_address = 0,
        !.relative_address = 0,
        !.status = UNUSED,
        !.cycles = 8]

irq(m) ==
  IF ~get_status_flag(m, INTERRUPT)
  THEN m
  ELSE LET pc == m.pc
           m1 == write_to_stack(m, pc \div 256)
           m2 == write_to_stack(m1, pc % 256)
           m3 == write_to_stack(m2, m.status)
           m4 == set_status_flag(m3, INTERRUPT, TRUE)
           lo == BusRead(m4.bus, IRQ_VECTOR_ADDRESS_LO)
           hi == BusRead(m4.bus, IRQ_VECTOR_ADDRESS_HI)
       IN [Rd(Rd(m4, IRQ_VECTOR_ADDRESS_LO), IRQ_VECTOR_ADDRESS_HI) EXCEPT
             !.pc = get_bytes_to_address(hi, lo),
             !.cycles = 7]

nmi(m) ==
  LET pc == m.pc
      m1 == write_to_stack(m, pc \div 256)
      m2 == write_to_stack(m1, pc % 256)
      m3 == write_to_stack(m2, BitOr(m.status, UNUSED))
      m4 == set_status_flag(m3, INTERRUPT, TRUE)
      lo == BusRead(m4.bus, NMI_VECTOR_ADDRESS_LO)
      hi == BusRead(m4.bus, NMI_VECTOR_ADDRESS_HI)
  IN [Rd(Rd(m4, NMI_VECTOR_ADDRESS_LO), NMI_VECTOR_ADDRESS_HI) EXCEPT
        !.pc = get_bytes_to_address(hi, lo),
        !.cycles = 7]

(***************************************************************************)
(* main.rs: the host.  It loads a program into RAM, builds the Bus on it,  *)
(* writes the start address to the reset vector through the bus, builds    *)
(* the CPU on the bus and calls clock() for ever.                          *)
(***************************************************************************)
MainProgram == <<162, 3, 169, 0, 24, 105, 10, 202, 208, 250, 133, 80, 0>>

MainStartAddress == 32768

\* Bus::new(Box::new(ram)) after ram.load_program(&program, start_address)
Loaded(program, start_address) == load_program(RamNew, program, start_address)

\* bus.write(RESET_VECTOR_ADDRESS_LO, lo); bus.write(RESET_VECTOR_ADDRESS_HI, hi)
WriteResetVector(bus, start_address) ==
  BusWrite(BusWrite(bus, RESET_VECTOR_ADDRESS_LO, start_address % 256),
           RESET_VECTOR_ADDRESS_HI, start_address \div 256)

RECURSIVE HostWrites(_, _)
HostWrites(bus, ws) ==
  IF ws = <<>> THEN bus
  ELSE HostWrites(BusWrite(bus, ws[1][1], ws[1][2]), Tail(ws))

(***************************************************************************)
(* The calls made on a running CPU                                         *)
(***************************************************************************)
MaxClocks == 20
MaxInterrupts == 2

NoRom == [len |-> 0, data |-> RamNew]

NoCartridge == [kind |-> "none"]

NoCpuBus == [kind |-> "none"]

NoTrace == [kind |-> "none"]

NoClosed == [kind |-> "none", at |-> 0, instruction |-> "", n |-> 0, k |-> 0]

NoWindow ==
  [kind |-> "none", at |-> 0, instruction |-> "", n |-> 0, k |-> 0, closed |-> NoClosed]

\* The window a call opens.  kind says what opened it: "opcode", a clock()
\* call that fetched a byte that decodes (at: where it was fetched, n: the base
\* cycle count of its decode entry); "invalid", one that fetched a byte that
\* does not; "reset", "irq", "nmi", that call ("none": an irq() that did not
\* write).  k counts the clock() calls made since that fetched nothing, and
\* closed is the window the opening call ended, the opening call counted in
\* its k.
Opened(w, old) ==
  [w EXCEPT !.closed = [kind |-> old.kind, at |-> old.at,
                        instruction |-> old.instruction, n |-> old.n,
                        k |-> old.k + 1]]

\* a clock() call that reads the bus has fetched an opcode: its first read
ClockWindow(before, after, old) ==
  IF after.reads = <<>>
  THEN [old EXCEPT !.k = @ + 1]
  ELSE LET decoded == Decode(BusRead(before.bus, after.reads[1]))
       IN IF decoded = <<>>
          THEN Opened([NoWindow EXCEPT !.kind = "invalid", !.at = after.reads[1]], old)
          ELSE Opened([NoWindow EXCEPT !.kind = "opcode", !.at = after.reads[1],
                                       !.instruction = decoded[1].instruction,
                                       !.n = decoded[1].cycles], old)

\* one clock() call
ClockCall ==
  /\ phase = "running"
  /\ cpu' = clock(Enter(cpu))
  /\ call' = [op |-> "clock", fetched |-> cpu'.reads # <<>>]
  /\ window' = ClockWindow(cpu, cpu', window)
  /\ UNCHANGED <<phase, vector, interrupts, rom, cartridge, cpu_bus, trace>>

Clock ==
  /\ clocks < MaxClocks
  /\ clocks' = clocks + 1
  /\ ClockCall

Reset ==
  /\ phase = "running"
  /\ interrupts < MaxInterrupts
  /\ cpu' = reset(Enter(cpu))
  /\ call' = [op |-> "reset", fetched |-> FALSE]
  /\ interrupts' = interrupts + 1
  /\ window' = Opened([NoWindow EXCEPT !.kind = "reset"], window)
  /\ UNCHANGED <<phase, vector, clocks, rom, cartridge, cpu_bus, trace>>

Irq ==
  /\ phase = "running"
  /\ interrupts < MaxInterrupts
  /\ cpu' = irq(Enter(cpu))
  /\ call' = [op |-> "irq", fetched |-> FALSE]
  /\ interrupts' = interrupts + 1
  /\ window' = Opened([NoWindow EXCEPT
                         !.kind = IF cpu'.writes = <<>> THEN "none" ELSE "irq"], window)
  /\ UNCHANGED <<phase, vector, clocks, rom, cartridge, cpu_bus, trace>>

Nmi ==
  /\ phase = "running"
  /\ interrupts < MaxInterrupts
  /\ cpu' = nmi(Enter(cpu))
  /\ call' = [op |-> "nmi", fetched |-> FALSE]
  /\ interrupts' = interrupts + 1
  /\ window' = Opened([NoWindow EXCEPT !.kind = "nmi"], window)
  /\ UNCHANGED <<phase, vector, clocks, rom, cartridge, cpu_bus, trace>>

\* what a host may set up before it builds the CPU: a program, where it is
\* loaded, the start address written to the reset vector, further bus writes
Boot(program, start, v, writes) ==
  [program |-> program, start |-> start, vector |-> v, writes |-> writes]

Boots ==
  { \* main.rs itself
    Boot(MainProgram, MainStartAddress, MainStartAddress, <<>>),
    \* the same program in low RAM, with the interrupt vectors written
    Boot(MainProgram, 0, 0,
         << <<NMI_VECTOR_ADDRESS_LO, 52>>, <<NMI_VECTOR_ADDRESS_HI, 18>>,
            <<IRQ_VECTOR_ADDRESS_LO, 6>>, <<IRQ_VECTOR_ADDRESS_HI, 0>> >>),
    \* LDX #$20; BNE +1; (invalid $02); LDA $00F0,X; BNE +1; (invalid $FF);
    \* CLI; LDA ($10),Y; invalid $03; INX; JMP $0000
    Boot(<<162, 32, 208, 1, 2, 189, 240, 0, 208, 1, 255, 88, 177, 16, 3, 232,
           76, 0, 0>>, 0, 0, <<>>),
    \* NOP; invalid $02; SEC; PHP; CLI; PLP; LDX #$01; TXS; PHA; RTI
    Boot(<<234, 2, 56, 8, 88, 40, 162, 1, 154, 72, 64>>, 0, 4660, <<>>) }

Booted(b) ==
  new(HostWrites(WriteResetVector(Loaded(b.program, b.start), b.vector), b.writes))

NoCall == [op |-> "none", fetched |-> FALSE]

Init ==
  /\ \E b \in Boots : cpu = Booted(b) /\ vector = b.vector
  /\ call = [op |-> "new", fetched |-> FALSE]
  /\ phase = "running"
  /\ clocks = 0
  /\ interrupts = 0
  /\ window = NoWindow
  /\ rom = NoRom
  /\ cartridge = NoCartridge
  /\ cpu_bus = NoCpuBus
  /\ trace = NoTrace

Next == Clock \/ Reset \/ Irq \/ Nmi

Spec == Init /\ [][Next]_vars

(***************************************************************************)
(* main.rs step by step: the vector writes, CPU::new, the clock() loop     *)
(***************************************************************************)
\* bus.write(RESET_VECTOR_ADDRESS_LO, lo), lo = start_address as u8
WriteVectorLo ==
  /\ phase = "loaded"
  /\ cpu' = [cpu EXCEPT !.bus = BusWrite(@, RESET_VECTOR_ADDRESS_LO, vector % 256)]
  /\ phase' = "vector_lo"
  /\ UNCHANGED <<call, vector, clocks, interrupts, window, rom, cartridge, cpu_bus, trace>>

\* bus.write(RESET_VECTOR_ADDRESS_HI, hi), hi = (start_address >> 8) as u8
WriteVectorHi ==
  /\ phase = "vector_lo"
  /\ cpu' = [cpu EXCEPT !.bus = BusWrite(@, RESET_VECTOR_ADDRESS_HI, vector \div 256)]
  /\ phase' = "vector_hi"
  /\ UNCHANGED <<call, vector, clocks, interrupts, window, rom, cartridge, cpu_bus, trace>>

\* let mut cpu = CPU::new(bus)
Construct ==
  /\ phase = "vector_hi"
  /\ cpu' = new(cpu.bus)
  /\ call' = [op |-> "new", fetched |-> FALSE]
  /\ phase' = "running"
  /\ UNCHANGED <<vector, clocks, interrupts, window, rom, cartridge, cpu_bus, trace>>

\* the host before it writes the vector: the Bus is built, the CPU is not
HostLoaded(program, start, v) ==
  /\ cpu = [bus |-> Loaded(program, start)]
  /\ vector = v
  /\ call = NoCall
  /\ phase = "loaded"
  /\ clocks = 0
  /\ interrupts = 0
  /\ window = NoWindow
  /\ rom = NoRom
  /\ cartridge = NoCartridge
  /\ cpu_bus = NoCpuBus
  /\ trace = NoTrace

\* the start addresses tried: both bytes range over VectorBytes
VectorBytes == {0, 1, 18, 52, 128, 255}

PowerInit ==
  \E lo \in VectorBytes, hi \in VectorBytes :
    HostLoaded(MainProgram, MainStartAddress, hi * 256 + lo)

PowerNext == WriteVectorLo \/ WriteVectorHi \/ Construct

PowerSpec == PowerInit /\ [][PowerNext]_vars

\* loop { if let Err(err) = cpu.clock() { panic!(..) } }
MainLoop ==
  /\ phase = "running"
  /\ cpu.result = "Ok"
  /\ ClockCall
  /\ UNCHANGED clocks

MainInit == HostLoaded(MainProgram, MainStartAddress, MainStartAddress)

MainNext == WriteVectorLo \/ WriteVectorHi \/ Construct \/ MainLoop

MainSpec == MainInit /\ [][MainNext]_vars

(***************************************************************************)
(* memory.rs: Memory.  cells is kept sparse like the RAM array.            *)
(* A byte slice is [len, data], data sparse too.                           *)
(***************************************************************************)
MemoryNew(capacity) == [capacity |-> capacity, cells |-> RamNew]

\* &bytes[from..to] panics unless from <= to <= bytes.len()
SlicePanics(bytes, from, to) == from > to \/ to > bytes.len

Slice(bytes, from, to) ==
  [len |-> to - from,
   data |-> [i \in {j - from : j \in {d \in DOMAIN bytes.data : d >= from /\ d < to}}
               |-> bytes.data[i + from]]]

ByteAt(bytes, i) == RamCell(bytes.data, i)

\* cells[start..end].copy_from_slice(value) panics unless end <= capacity
write_chunk_panics(memory, address, value) == address + value.len > memory.capacity

write_chunk(memory, address, value) ==
  [memory EXCEPT !.cells =
     [i \in {c \in DOMAIN memory.cells : c < address \/ c >= address + value.len}
            \cup {d + address : d \in DOMAIN value.data}
        |-> IF i >= address /\ i < address + value.len
            THEN value.data[i - address]
            ELSE memory.cells[i]]]

(***************************************************************************)
(* mapper.rs, cartridge.rs                                                 *)
(***************************************************************************)
HeaderSize == 16
LoadOffset == 528
PrgBankSize == 16384
ChrBankSize == 8192
LOWER_MAPPER_BITS_MASK == 240
UPPER_MAPPER_BITS_MASK == 240

NesMagic == <<78, 69, 83, 26>>

\* the union of the flags each bitflags! struct names
MapperFirstFlagsAll == BitOr(BitOr(BitOr(BitOr(1, 2), 4), 8), LOWER_MAPPER_BITS_MASK)

MapperSecondFlagsAll == BitOr(BitOr(BitOr(UPPER_MAPPER_BITS_MASK, 1), 2), 12)

from_bits_truncate(all, bits) == BitAnd(bits, all)

Err(error) == [kind |-> "err", error |-> error]

Panic == [kind |-> "panic"]

HeaderNew(bytes) ==
  IF bytes.len < HeaderSize
  THEN Err("InvalidCartridgeHeaderSize")
  ELSE IF <<ByteAt(bytes, 0), ByteAt(bytes, 1), ByteAt(bytes, 2), ByteAt(bytes, 3)>>
          # NesMagic
  THEN Err("InvalidNesFile")
  ELSE [kind |-> "ok",
        prg_banks |-> ByteAt(bytes, 4),
        chr_banks |-> ByteAt(bytes, 5),
        first_mapper_flags |-> from_bits_truncate(MapperFirstFlagsAll, ByteAt(bytes, 6)),
        second_mapper_flags |-> from_bits_truncate(MapperSecondFlagsAll, ByteAt(bytes, 7))]

\* A faulty variant of get_mapper_id: the low nibble of the id is left out.
get_mapper_id_upper_only(header) ==
  BitAnd(header.second_mapper_flags, UPPER_MAPPER_BITS_MASK)

get_mapper_id(header) ==
  LET lower == BitAnd(header.first_mapper_flags, LOWER_MAPPER_BITS_MASK) \div 16
      upper == BitAnd(header.second_mapper_flags, UPPER_MAPPER_BITS_MASK)
  IN BitOr(upper, lower)

MapperNew(prg_banks, chr_banks) == [prg_banks |-> prg_banks, chr_banks |-> chr_banks]

\* Cartridge::new once the header is parsed and the mapper id accepted
LoadBanks(bytes, header) ==
  LET offset == LoadOffset
      prg_memory_size == header.prg_banks * PrgBankSize
      chr_memory_size == header.chr_banks * ChrBankSize
      prg_ram == MemoryNew(prg_memory_size)
      chr_rom == MemoryNew(chr_memory_size)
      prg == Slice(bytes, offset, offset + prg_memory_size)
      offset2 == offset + prg_memory_size
      chr == Slice(bytes, offset2, offset2 + chr_memory_size)
  IN IF SlicePanics(bytes, offset, offset + prg_memory_size)
        \/ write_chunk_panics(prg_ram, 0, prg)
     THEN Panic
     ELSE IF SlicePanics(bytes, offset2, offset2 + chr_memory_size)
             \/ write_chunk_panics(chr_rom, 0, chr)
     THEN Panic
     ELSE [kind |-> "ok",
           header |-> header,
           prg_ram |-> write_chunk(prg_ram, 0, prg),
           chr_rom |-> write_chunk(chr_rom, 0, chr),
           mapper |-> MapperNew(header.prg_banks, header.chr_banks)]

CartridgeNew(bytes) ==
  LET header == HeaderNew(bytes)
  IN IF header.kind = "err" THEN header
     ELSE IF get_mapper_id(header) # 0 THEN Err("InvalidCartridgeMapper")
     ELSE LoadBanks(bytes, header)

(***************************************************************************)
(* Cartridge construction on a range of inputs                             *)
(***************************************************************************)
MaxPrgBanks == 2
MaxChrBanks == 1

RECURSIVE Bytes(_)
Bytes(pairs) ==
  IF pairs = <<>> THEN RamNew
  ELSE RamSet(Bytes(Tail(pairs)), pairs[1][1], pairs[1][2])

Truncated(data, len) ==
  [len |-> len, data |-> [i \in {d \in DOMAIN data : d < len} |-> data[i]]]

\* an image: the header fields, then a marked byte at the start of where the
\* PRG banks are read from, and one right after them
Image(magic, prg, chr, flags6, flags7) ==
  Bytes(<< <<0, magic[1]>>, <<1, magic[2]>>, <<2, magic[3]>>, <<3, magic[4]>>,
           <<4, prg>>, <<5, chr>>, <<6, flags6>>, <<7, flags7>>,
           <<LoadOffset, 170>>, <<LoadOffset + prg * PrgBankSize, 204>> >>)

Magics == {NesMagic, <<78, 69, 83, 0>>, <<0, 69, 83, 26>>}

Flags6 == {0, 16, 15, 240}

Flags7 == {0, 16, 15}

Lengths ==
  {0, 3, 15, 16, 17, 527, 528}
  \cup {LoadOffset + p * PrgBankSize + c * ChrBankSize - d :
          p \in 0..MaxPrgBanks, c \in 0..MaxChrBanks, d \in {0, 1}}

Roms ==
  {Truncated(Image(mg, p, c, f6, f7), len) :
     mg \in Magics, p \in 0..MaxPrgBanks, c \in 0..MaxChrBanks,
     f6 \in Flags6, f7 \in Flags7, len \in Lengths}

CartridgeInit ==
  /\ rom \in Roms
  /\ cartridge = NoCartridge
  /\ cpu_bus = NoCpuBus
  /\ trace = NoTrace
  /\ phase = "input"
  /\ cpu = [bus |-> RamNew]
  /\ vector = 0
  /\ call = NoCall
  /\ clocks = 0
  /\ interrupts = 0
  /\ window = NoWindow

\* Cartridge::new(&bytes)
BuildCartridge ==
  /\ phase = "input"
  /\ cartridge' = CartridgeNew(rom)
  /\ phase' = "built"
  /\ UNCHANGED <<cpu, call, vector, clocks, interrupts, window, rom, cpu_bus, trace>>

CartridgeNext == BuildCartridge

CartridgeSpec == CartridgeInit /\ [][CartridgeNext]_vars
(***************************************************************************)
(* memory.rs (read, write), mapper.rs, cartridge.rs (prg_read, prg_write), *)
(* ppu.rs, bus/ppu_bus.rs, bus/cpu_bus.rs                                  *)
(***************************************************************************)
\* self.cells.borrow()[address as usize] panics unless address < capacity
MemoryAccessPanics(memory, address) == address >= memory.capacity

MemoryRead(memory, address) == RamCell(memory.cells, address)

MemoryWrite(memory, address, value) ==
  [memory EXCEPT !.cells = RamSet(@, address, value)]

PRG_TWO_BANKS_MASK == 32767
PRG_ONE_BANK_MASK == 16383

\* A faulty variant of get_prg_address: the 32 KiB mask whatever the bank count.
get_prg_address_two_banks_mask(mapper, address) == BitAnd(address, PRG_TWO_BANKS_MASK)

get_prg_address(mapper, address) ==
  BitAnd(address, IF mapper.prg_banks > 1 THEN PRG_TWO_BANKS_MASK ELSE PRG_ONE_BANK_MASK)

get_chr_address(mapper, address) == address

prg_read_panics(c, address) ==
  MemoryAccessPanics(c.prg_ram, get_prg_address(c.mapper, address))

prg_read(c, address) == MemoryRead(c.prg_ram, get_prg_address(c.mapper, address))

prg_write_panics(c, address) ==
  MemoryAccessPanics(c.prg_ram, get_prg_address(c.mapper, address))

prg_write(c, address, value) ==
  [c EXCEPT !.prg_ram = MemoryWrite(@, get_prg_address(c.mapper, address), value)]

chr_read(c, address) == MemoryRead(c.chr_rom, get_chr_address(c.mapper, address))

\* the PPU's bus holds the cartridge the CpuBus holds (Rc<Cartridge>), no copy
PpuBusNew(c) == [cartridge |-> "Rc"]

PpuNew(bus) == [bus |-> bus]

PpuRead(ppu, address) == 0

PpuWrite(ppu, address, value) == ppu

CpuBus_RAM_ADDRESS_LO == 0
CpuBus_RAM_ADDRESS_HI == 8191
PPU_REGISTERS_ADDRESS_LO == 8192
PPU_REGISTERS_ADDRESS_HI == 16383
CARTRIDGE_PRG_ADDRESS_LO == 32768
CARTRIDGE_PRG_ADDRESS_HI == 65535
RAM_MIRROR_MASK == 2047
PPU_MIRROR_MASK == 7

\* A faulty variant of get_mirrored_ram_address: the mask one bit short.
get_mirrored_ram_address_short_mask(address) == BitAnd(address, RAM_MIRROR_MASK \div 2)

get_mirrored_ram_address(address) == BitAnd(address, RAM_MIRROR_MASK)

get_mirrored_ppu_address(address) == BitAnd(address, PPU_MIRROR_MASK)

\* the cartridge is the one the PPU's bus holds too (Rc<Cartridge>)
CpuBusNew(ram, ppu, c) == [kind |-> "ok", ram |-> ram, ppu |-> ppu, cartridge |-> c]

CpuBusReadPanics(bus, address) ==
  IF address >= CpuBus_RAM_ADDRESS_LO /\ address <= CpuBus_RAM_ADDRESS_HI
  THEN MemoryAccessPanics(bus.ram, get_mirrored_ram_address(address))
  ELSE IF address >= CARTRIDGE_PRG_ADDRESS_LO /\ address <= CARTRIDGE_PRG_ADDRESS_HI
  THEN prg_read_panics(bus.cartridge, address)
  ELSE FALSE

\* A faulty variant of CpuBusRead: the cartridge answers from $4000 on.
CpuBusRead_cartridge_from_4000(bus, address) ==
  IF address >= CpuBus_RAM_ADDRESS_LO /\ address <= CpuBus_RAM_ADDRESS_HI
  THEN MemoryRead(bus.ram, get_mirrored_ram_address(address))
  ELSE IF address >= PPU_REGISTERS_ADDRESS_LO /\ address <= PPU_REGISTERS_ADDRESS_HI
  THEN PpuRead(bus.ppu, get_mirrored_ppu_address(address))
  ELSE IF address > PPU_REGISTERS_ADDRESS_HI /\ address <= CARTRIDGE_PRG_ADDRESS_HI
  THEN prg_read(bus.cartridge, address)
  ELSE 0

CpuBusRead(bus, address) ==
  IF address >= CpuBus_RAM_ADDRESS_LO /\ address <= CpuBus_RAM_ADDRESS_HI
  THEN MemoryRead(bus.ram, get_mirrored_ram_address(address))
  ELSE IF address >= PPU_REGISTERS_ADDRESS_LO /\ address <= PPU_REGISTERS_ADDRESS_HI
  THEN PpuRead(bus.ppu, get_mirrored_ppu_address(address))
  ELSE IF address >= CARTRIDGE_PRG_ADDRESS_LO /\ address <= CARTRIDGE_PRG_ADDRESS_HI
  THEN prg_read(bus.cartridge, address)
  ELSE 0

CpuBusWritePanics(bus, address) ==
  IF address >= CpuBus_RAM_ADDRESS_LO /\ address <= CpuBus_RAM_ADDRESS_HI
  THEN MemoryAccessPanics(bus.ram, get_mirrored_ram_address(address))
  ELSE IF address >= CARTRIDGE_PRG_ADDRESS_LO /\ address <= CARTRIDGE_PRG_ADDRESS_HI
  THEN prg_write_panics(bus.cartridge, address)
  ELSE FALSE

CpuBusWrite(bus, address, value) ==
  IF address >= CpuBus_RAM_ADDRESS_LO /\ address <= CpuBus_RAM_ADDRESS_HI
  THEN [bus EXCEPT !.ram = MemoryWrite(@, get_mirrored_ram_address(address), value)]
  ELSE IF address >= PPU_REGISTERS_ADDRESS_LO /\ address <= PPU_REGISTERS_ADDRESS_HI
  THEN [bus EXCEPT !.ppu = PpuWrite(@, get_mirrored_ppu_address(address), value)]
  ELSE IF address >= CARTRIDGE_PRG_ADDRESS_LO /\ address <= CARTRIDGE_PRG_ADDRESS_HI
  THEN [bus EXCEPT !.cartridge = prg_write(@, address, value)]
  ELSE bus

(***************************************************************************)
(* A CpuBus over a 2 KiB RAM, the PPU and a loaded cartridge, and the      *)
(* reads and writes made on it                                             *)
(***************************************************************************)
MaxBusOps == 2

\* the RAM the mirroring mask addresses in full
CpuRamSize == RAM_MIRROR_MASK + 1

\* an image whose PRG banks carry marked bytes at the ends of each bank
BusImage(prg, chr) ==
  Truncated(
    Bytes(<< <<0, NesMagic[1]>>, <<1, NesMagic[2]>>, <<2, NesMagic[3]>>,
             <<3, NesMagic[4]>>, <<4, prg>>, <<5, chr>>,
             <<LoadOffset, 17>>, <<LoadOffset + 1, 34>>,
             <<LoadOffset + PrgBankSize - 1, 51>>, <<LoadOffset + PrgBankSize, 68>>,
             <<LoadOffset + 2 * PrgBankSize - 1, 85>> >>),
    LoadOffset + prg * PrgBankSize + chr * ChrBankSize)

BusRoms == {BusImage(p, c) : p \in 0..MaxPrgBanks, c \in 0..MaxChrBanks}

\* the addresses read and written: the ends of each region and of each mirror
BusAddresses ==
  {0, 1, 2047, 2048, 2049, 4096, 6145, 8191,
   8192, 16383,
   16384, 20480, 32767,
   32768, 32769, 49151, 49152, 49153, 65535}

BusValues == {0, 85, 255}

BusInit ==
  /\ rom \in BusRoms
  /\ cartridge = CartridgeNew(rom)
  /\ cpu_bus = CpuBusNew(MemoryNew(CpuRamSize), PpuNew(PpuBusNew(cartridge)), cartridge)
  /\ phase = "bus"
  /\ call = NoCall
  /\ cpu = [bus |-> RamNew]
  /\ vector = 0
  /\ clocks = 0
  /\ interrupts = 0
  /\ window = NoWindow
  /\ trace = NoTrace

\* bus.read(address)
CpuBusReadCall ==
  /\ phase = "bus"
  /\ clocks < MaxBusOps
  /\ \E address \in BusAddresses :
       IF CpuBusReadPanics(cpu_bus, address)
       THEN /\ phase' = "panicked"
            /\ call' = [op |-> "read", fetched |-> FALSE, address |-> address, value |-> 0]
       ELSE /\ phase' = phase
            /\ call' = [op |-> "read", fetched |-> FALSE, address |-> address,
                        value |-> CpuBusRead(cpu_bus, address)]
  /\ clocks' = clocks + 1
  /\ UNCHANGED <<cpu, vector, interrupts, window, rom, cartridge, cpu_bus, trace>>

\* bus.write(address, value)
CpuBusWriteCall ==
  /\ phase = "bus"
  /\ clocks < MaxBusOps
  /\ \E address \in BusAddresses, value \in BusValues :
       /\ call' = [op |-> "write", fetched |-> FALSE, address |-> address, value |-> value]
       /\ IF CpuBusWritePanics(cpu_bus, address)
          THEN phase' = "panicked" /\ cpu_bus' = cpu_bus
          ELSE phase' = phase /\ cpu_bus' = CpuBusWrite(cpu_bus, address, value)
  /\ clocks' = clocks + 1
  /\ UNCHANGED <<cpu, vector, interrupts, window, rom, cartridge, trace>>

BusNext == CpuBusReadCall \/ CpuBusWriteCall

BusSpec == BusInit /\ [][BusNext]_vars

(***************************************************************************)
(* The stack: PHA with a chosen accumulator, a number of times, then PLA   *)
(***************************************************************************)
MaxPushes == 3

StackPointers == {0, 1, 2, 128, 253, 254, 255}

StackValues == {0, 1, 128, 255}

StackInit ==
  /\ \E sp \in StackPointers :
       /\ cpu = [Enter(new(RamNew)) EXCEPT !.sp = sp]
       /\ trace = [kind |-> "stack", sp |-> sp, pushed |-> <<>>, popped |-> <<>>]
  /\ call = NoCall
  /\ phase = "push"
  /\ vector = 0
  /\ clocks = 0
  /\ interrupts = 0
  /\ window = NoWindow
  /\ rom = NoRom
  /\ cartridge = NoCartridge
  /\ cpu_bus = NoCpuBus

\* PHA, the accumulator holding value
Pha ==
  /\ phase = "push"
  /\ Len(trace.pushed) < MaxPushes
  /\ \E value \in StackValues :
       /\ cpu' = execute_instruction([Enter(cpu) EXCEPT !.a = value], "PHA", "Implied")
       /\ trace' = [trace EXCEPT !.pushed = Append(@, value)]
  /\ call' = [op |-> "PHA", fetched |-> FALSE]
  /\ UNCHANGED <<phase, vector, clocks, interrupts, window, rom, cartridge, cpu_bus>>

\* PLA
Pla ==
  /\ phase \in {"push", "pop"}
  /\ Len(trace.popped) < Len(trace.pushed)
  /\ cpu' = execute_instruction(Enter(cpu), "PLA", "Implied")
  /\ trace' = [trace EXCEPT !.popped = Append(@, cpu'.a)]
  /\ call' = [op |-> "PLA", fetched |-> FALSE]
  /\ phase' = "pop"
  /\ UNCHANGED <<vector, clocks, interrupts, window, rom, cartridge, cpu_bus>>

StackNext == Pha \/ Pla

StackSpec == StackInit /\ [][StackNext]_vars

(***************************************************************************)
(* One instruction: a CPU with cycles = 0 whose PC points at an opcode     *)
(* byte and two operand bytes, and the clock() call that fetches it        *)
(***************************************************************************)
\* the memory around the program: pointers, their targets and page starts
OpcodeData ==
  Bytes(<< <<0, 4>>, <<16, 52>>, <<17, 2>>, <<128, 255>>, <<129, 255>>, <<254, 64>>,
           <<255, 18>>, <<256, 7>>, <<258, 128>>,
           <<512, 128>>, <<564, 86>>, <<565, 7>>, <<768, 64>>,
           <<1280, 3>>, <<1535, 1>>, <<1536, 5>>,
           <<IRQ_VECTOR_ADDRESS_LO, 52>>, <<IRQ_VECTOR_ADDRESS_HI, 2>>,
           <<NMI_VECTOR_ADDRESS_LO, 0>>, <<NMI_VECTOR_ADDRESS_HI, 3>> >>)

BranchBytes == {16, 48, 80, 112, 144, 176, 208, 240}

FlagSets == {UNUSED + c + z + v + n : c \in {0, CARRY}, z \in {0, ZERO},
                                      v \in {0, OVERFLOW}, n \in {0, NEGATIVE}}

OpcodeCase(byte, pc, o1, o2, status) ==
  [kind |-> "opcode", byte |-> byte, pc |-> pc, o1 |-> o1, o2 |-> o2,
   status |-> status, a |-> 129, x |-> 1, y |-> 2,
   sp |-> STACK_POINTER_INITIAL_OFFSET]

\* the cases of the opening call, for the opcode bytes given
OpcodeCases(bytes) ==
  {OpcodeCase(b, pc, o[1], o[2], s) :
     b \in bytes, pc \in {0, 254, 1917, 1919},
     o \in {<<255, 2>>, <<52, 2>>, <<255, 5>>, <<128, 0>>},
     s \in {UNUSED, UNUSED + CARRY + ZERO + OVERFLOW + NEGATIVE}}
  \cup
  {OpcodeCase(b, pc, o1, 0, s) :
     b \in BranchBytes, pc \in {0, 254, 1792, 1919},
     o1 \in {0, 1, 2, 127, 128, 129, 254, 255}, s \in FlagSets}
  \cup
  \* every byte again, over a range of registers, flags and stack pointers
  {[OpcodeCase(b, 1024, o1, 0, s) EXCEPT
      !.a = a, !.x = x, !.y = (x + 1) % 256,
      !.sp = IF x = 255 THEN STACK_POINTER_INITIAL_OFFSET ELSE x] :
     b \in bytes, o1 \in {0, 16, 128, 254, 255}, a \in {0, 1, 128, 255},
     x \in {0, 1, 255},
     s \in {UNUSED, UNUSED + CARRY, UNUSED + INTERRUPT + DECIMAL + OVERFLOW,
            UNUSED + CARRY + ZERO + INTERRUPT + DECIMAL + OVERFLOW + NEGATIVE}}

OpcodeInit ==
  /\ \E c \in OpcodeCases(Byte) :
       /\ trace = c
       /\ cpu = [Enter(new(load_program(OpcodeData, <<c.byte, c.o1, c.o2>>, c.pc)))
                   EXCEPT !.pc = c.pc, !.status = c.status, !.x = c.x, !.y = c.y,
                          !.a = c.a, !.sp = c.sp]
  /\ call = NoCall
  /\ phase = "running"
  /\ vector = 0
  /\ clocks = 0
  /\ interrupts = 0
  /\ window = NoWindow
  /\ rom = NoRom
  /\ cartridge = NoCartridge
  /\ cpu_bus = NoCpuBus

\* the first clock() call: cycles = 0, so it fetches the byte at PC
FirstClock ==
  /\ call = NoCall
  /\ ClockCall
  /\ UNCHANGED clocks

OpcodeNext == FirstClock

OpcodeSpec == OpcodeInit /\ [][OpcodeNext]_vars

(***************************************************************************)
(* The adder: ADC of an operand in memory, then SBC of the same operand    *)
(***************************************************************************)
\* where the operand of ADC and SBC lies
AluOperandAddress == 16

AluInit ==
  /\ \E a \in Byte, value \in Byte, carry \in {0, CARRY},
        others \in {0, DECIMAL, DECIMAL + INTERRUPT} :
       /\ trace = [kind |-> "alu", a |-> a, value |-> value, carry |-> carry,
                   status |-> UNUSED + carry + others]
       /\ cpu = [Enter(new(RamSet(RamNew, AluOperandAddress, value)))
                   EXCEPT !.a = a, !.status = UNUSED + carry + others,
                          !.absolute_address = AluOperandAddress]
  /\ call = NoCall
  /\ phase = "alu"
  /\ vector = 0
  /\ clocks = 0
  /\ interrupts = 0
  /\ window = NoWindow
  /\ rom = NoRom
  /\ cartridge = NoCartridge
  /\ cpu_bus = NoCpuBus

\* ADC
Adc ==
  /\ phase = "alu"
  /\ cpu' = execute_instruction(Enter(cpu), "ADC", "ZeroPage")
  /\ call' = [op |-> "ADC", fetched |-> FALSE]
  /\ phase' = "added"
  /\ UNCHANGED <<vector, clocks, interrupts, window, rom, cartridge, cpu_bus, trace>>

\* SBC, after the ADC or in its place
Sbc ==
  /\ phase \in {"alu", "added"}
  /\ cpu' = execute_instruction(Enter(cpu), "SBC", "ZeroPage")
  /\ call' = [op |-> "SBC", fetched |-> FALSE]
  /\ phase' = IF phase = "added" THEN "subtracted" ELSE "subtracted_only"
  /\ UNCHANGED <<vector, clocks, interrupts, window, rom, cartridge, cpu_bus, trace>>

AluNext == Adc \/ Sbc

AluSpec == AluInit /\ [][AluNext]_vars


(***************************************************************************)
(* Call and return: a CPU about to execute a JSR, with RTS at the          *)
(* subroutine's address and RTI where the interrupt vectors lead; the      *)
(* first call is that clock(), an nmi() or an irq(), clock() calls follow  *)
(***************************************************************************)
MaxReturnClocks == 8

\* where the interrupt vectors lead: the word the bus returns for them
InterruptHandlerAddress == 0

SubroutineAddresses == {564, 768}

\* RTI at the interrupt handler, RTS at the subroutines
ReturnData ==
  Bytes(<< <<InterruptHandlerAddress, 64>>, <<564, 96>>, <<768, 96>>,
           <<IRQ_VECTOR_ADDRESS_LO, 52>>, <<IRQ_VECTOR_ADDRESS_HI, 2>>,
           <<NMI_VECTOR_ADDRESS_LO, 0>>, <<NMI_VECTOR_ADDRESS_HI, 3>> >>)

\* the status bytes a running CPU can have: U set, B clear
RunningStatuses ==
  {UNUSED + c + z + i + d + v + n :
     c \in {0, CARRY}, z \in {0, ZERO}, i \in {0, INTERRUPT}, d \in {0, DECIMAL},
     v \in {0, OVERFLOW}, n \in {0, NEGATIVE}}

ReturnInit ==
  /\ \E pc \in {16, 1024, 1917}, sp \in {0, 1, 2, 253, 255},
        status \in RunningStatuses, target \in SubroutineAddresses :
       /\ trace = [kind |-> "return", pc |-> pc, sp |-> sp, status |-> status,
                   target |-> target]
       /\ cpu = [Enter(new(load_program(ReturnData,
                                        <<32, target % 256, target \div 256>>, pc)))
                   EXCEPT !.pc = pc, !.sp = sp, !.status = status]
  /\ call = NoCall
  /\ phase = "running"
  /\ vector = 0
  /\ clocks = 0
  /\ interrupts = 0
  /\ window = NoWindow
  /\ rom = NoRom
  /\ cartridge = NoCartridge
  /\ cpu_bus = NoCpuBus

\* an nmi() call before any clock() call
FirstNmi ==
  /\ call = NoCall
  /\ Nmi

\* an irq() call before any clock() call
FirstIrq ==
  /\ call = NoCall
  /\ Irq

\* the clock() calls after the first call
ReturnClock ==
  /\ call # NoCall
  /\ clocks < MaxReturnClocks
  /\ clocks' = clocks + 1
  /\ ClockCall

ReturnNext == FirstClock \/ FirstNmi \/ FirstIrq \/ ReturnClock

ReturnSpec == ReturnInit /\ [][ReturnNext]_vars

(***************************************************************************)
(* Properties                                                              *)
(***************************************************************************)
Flag(m, flag) == (m.status \div flag) % 2 = 1

\* the little-endian word the RAM array holds at two addresses
WordAt(bus, lo, hi) == RamCell(bus, hi) * 256 + RamCell(bus, lo)

RegistersUnchanged ==
  /\ cpu'.a = cpu.a /\ cpu'.x = cpu.x /\ cpu'.y = cpu.y
  /\ cpu'.sp = cpu.sp /\ cpu'.status = cpu.status

ScratchUnchanged ==
  /\ cpu'.absolute_address = cpu.absolute_address
  /\ cpu'.relative_address = cpu.relative_address

ClockStep == clocks' = clocks + 1

ResetStep == interrupts' = interrupts + 1 /\ call'.op = "reset"

IrqStep == interrupts' = interrupts + 1 /\ call'.op = "irq"

NmiStep == interrupts' = interrupts + 1 /\ call'.op = "nmi"

\* C1: for every start address v, once its low byte is written to $FFFC and
\* its high byte to $FFFD through the bus and the CPU is built on that bus,
\* PC = v, SP = $FD, A = X = Y = 0 and the status contains U and I.
PowerOnVectorFetch ==
  phase = "running" =>
    /\ cpu.pc = vector
    /\ cpu.sp = 253
    /\ cpu.a = 0 /\ cpu.x = 0 /\ cpu.y = 0
    /\ Flag(cpu, UNUSED) /\ Flag(cpu, INTERRUPT)

\* the clock() call just made fetched and executed a BRK
BrkExecuted ==
  /\ call.op = "clock"
  /\ call.fetched
  /\ window.kind = "opcode"
  /\ window.instruction = "BRK"

\* C2: main.rs, run as it is, never gets InvalidOpcode, and the BRK it comes
\* to execute is the one at $800C, with RAM[$0050] = $1E, X = 0, Z set and
\* N clear once it is executed.
MultiplierEndToEnd ==
  /\ phase = "running" => cpu.result # "InvalidOpcode"
  /\ BrkExecuted =>
       /\ window.at = 32780
       /\ RamCell(cpu.bus, 80) = 30
       /\ cpu.x = 0
       /\ Flag(cpu, ZERO)
       /\ ~Flag(cpu, NEGATIVE)

\* C3: a clock() call made while the cycle counter is greater than zero reads
\* and writes nothing through the bus, leaves A, X, Y, SP, PC, the status, the
\* scratch addresses and all memory unchanged, decreases the counter by one
\* and returns Ok.
StallTicksArePure ==
  [][(ClockStep /\ cpu.cycles > 0) =>
       /\ cpu'.reads = <<>>
       /\ cpu'.writes = <<>>
       /\ RegistersUnchanged
       /\ ScratchUnchanged
       /\ cpu'.pc = cpu.pc
       /\ cpu'.bus = cpu.bus
       /\ cpu'.cycles = cpu.cycles - 1
       /\ cpu'.result = "Ok"]_vars

\* a stall tick was made in the middle of an instruction's window
StallTickMade ==
  /\ call.op = "clock"
  /\ ~call.fetched
  /\ window.kind = "opcode"
  /\ window.k >= 1
  /\ cpu.cycles > 0

\* C4: after a clock() call that fetched an opcode of base cycle count N >= 1,
\* and with no reset/irq/nmi call meanwhile, the following N-1 clock() calls
\* fetch nothing and the N-th fetches the next opcode, whether or not a branch
\* was taken or an indexed address crossed a page.
InstructionDuration ==
  [][(ClockStep /\ window.kind = "opcode" /\ window.n >= 1) =>
       (call'.fetched <=> window.k + 1 = window.n)]_vars

\* the BNE at $0002 was taken (the next opcode was fetched at $0005), and that
\* fetch was the N-th clock() call after the one that fetched the BNE
TakenBranchWindowClosed ==
  /\ window.kind = "opcode"
  /\ window.at = 5
  /\ window.closed.kind = "opcode"
  /\ window.closed.instruction = "BNE"
  /\ window.closed.at = 2
  /\ window.closed.k = window.closed.n

\* C5: clock() returns InvalidOpcode exactly when the counter is zero and the
\* byte at PC does not decode; then A, X, Y, SP, the status, all memory and the
\* counter (still zero) are unchanged and PC has advanced by one, so that the
\* next clock() call fetches the following byte.  clock() never fails while
\* the counter is greater than zero.
InvalidOpcodeExactly ==
  [][ClockStep =>
       /\ cpu'.result \in {"Ok", "InvalidOpcode"}
       /\ (cpu'.result = "InvalidOpcode") <=>
            (cpu.cycles = 0 /\ Decode(BusRead(cpu.bus, cpu.pc)) = <<>>)
       /\ (cpu'.result = "InvalidOpcode") =>
            /\ RegistersUnchanged
            /\ cpu'.bus = cpu.bus
            /\ cpu'.writes = <<>>
            /\ cpu.cycles = 0 /\ cpu'.cycles = 0
            /\ cpu'.pc = u16(cpu.pc + 1)
       /\ (cpu.cycles > 0) => cpu'.result = "Ok"
       /\ (window.kind = "invalid") =>
            (call'.fetched /\ cpu'.reads[1] = u16(window.at + 1))]_vars

\* the byte at $0001 did not decode, and the next clock() call fetched the
\* opcode at $0002
FetchedAfterInvalidOpcode ==
  /\ call.op = "clock"
  /\ window.kind = "opcode"
  /\ window.at = 2
  /\ window.closed.kind = "invalid"
  /\ window.closed.at = 1
  /\ window.closed.k = 1

\* irq() serviced the interrupt: PC high, PC low, then the status pushed,
\* I set, PC loaded from $FFFE/$FFFF, the counter at 7
IrqServiced ==
  /\ cpu'.writes = << <<256 + cpu.sp, cpu.pc \div 256>>,
                      <<256 + u8(cpu.sp - 1), cpu.pc % 256>>,
                      <<256 + u8(cpu.sp - 2), cpu.status>> >>
  /\ cpu'.sp = u8(cpu.sp - 3)
  /\ cpu'.status = BitOr(cpu.status, INTERRUPT)
  /\ cpu'.pc = WordAt(cpu'.bus, IRQ_VECTOR_ADDRESS_LO, IRQ_VECTOR_ADDRESS_HI)
  /\ cpu'.cycles = 7

\* irq() did nothing
IrqIgnored ==
  /\ RegistersUnchanged
  /\ ScratchUnchanged
  /\ cpu'.pc = cpu.pc
  /\ cpu'.cycles = cpu.cycles
  /\ cpu'.bus = cpu.bus
  /\ cpu'.writes = <<>>

\* C6: irq() services the interrupt exactly when the Interrupt flag is clear;
\* when it is set, irq() leaves every register, the counter and all memory
\* unchanged.
IrqMasking ==
  [][IrqStep => IF ~Flag(cpu, INTERRUPT) THEN IrqServiced ELSE IrqIgnored]_vars

\* C7: whatever the value of I, nmi() called with PC = p, SP = s and status f
\* writes the high byte of p to $0100|s, the low byte of p to $0100|(s-1) and
\* f|U to $0100|(s-2), leaves SP = s-3 (all modulo 256), sets I, loads PC from
\* the word at $FFFA/$FFFB and sets the counter to 7, so that the next 7
\* clock() calls fetch nothing.
NmiUnconditional ==
  [][/\ NmiStep =>
          /\ RamCell(cpu'.bus, 256 + cpu.sp) = cpu.pc \div 256
          /\ RamCell(cpu'.bus, 256 + u8(cpu.sp - 1)) = cpu.pc % 256
          /\ RamCell(cpu'.bus, 256 + u8(cpu.sp - 2)) = BitOr(cpu.status, UNUSED)
          /\ cpu'.sp = u8(cpu.sp - 3)
          /\ Flag(cpu', INTERRUPT)
          /\ cpu'.pc = WordAt(cpu'.bus, NMI_VECTOR_ADDRESS_LO, NMI_VECTOR_ADDRESS_HI)
          /\ cpu'.cycles = 7
     /\ (ClockStep /\ window.kind = "nmi" /\ window.k < 7) => ~call'.fetched]_vars

\* C8: reset(), from any state, gives A = X = Y = 0, SP = $FD, PC = the word at
\* $FFFC/$FFFD, the scratch addresses zero, status exactly U and the counter
\* 8, and writes no memory; the next 8 clock() calls fetch nothing and the 9th
\* fetches the opcode at the reset vector's target.
ResetFromAnyState ==
  [][/\ ResetStep =>
          /\ cpu'.a = 0 /\ cpu'.x = 0 /\ cpu'.y = 0
          /\ cpu'.sp = 253
          /\ cpu'.pc = WordAt(cpu.bus, RESET_VECTOR_ADDRESS_LO, RESET_VECTOR_ADDRESS_HI)
          /\ cpu'.absolute_address = 0 /\ cpu'.relative_address = 0
          /\ cpu'.status = UNUSED
          /\ cpu'.cycles = 8
          /\ cpu'.writes = <<>>
          /\ cpu'.bus = cpu.bus
     /\ (ClockStep /\ window.kind = "reset") =>
          /\ call'.fetched <=> window.k = 8
          /\ call'.fetched =>
               cpu'.reads[1] = WordAt(cpu.bus, RESET_VECTOR_ADDRESS_LO,
                                      RESET_VECTOR_ADDRESS_HI)]_vars

HasMagic(bytes) == \A i \in 1..4 : ByteAt(bytes, i - 1) = NesMagic[i]

\* the mapper id: the high nibble of byte 7, then the high nibble of byte 6
MapperIdOf(bytes) == (ByteAt(bytes, 7) \div 16) * 16 + ByteAt(bytes, 6) \div 16

\* C9: Cartridge::new returns InvalidCartridgeHeaderSize for every input
\* shorter than 16 bytes, InvalidNesFile for every input of at least 16 bytes
\* whose first four bytes are not 4E 45 53 1A, and InvalidCartridgeMapper for
\* every input of at least 16 bytes with that magic whose mapper id is not 0.
CartridgeErrorClassification ==
  phase = "built" =>
    /\ rom.len < 16 => cartridge = Err("InvalidCartridgeHeaderSize")
    /\ (rom.len >= 16 /\ ~HasMagic(rom)) => cartridge = Err("InvalidNesFile")
    /\ (rom.len >= 16 /\ HasMagic(rom) /\ MapperIdOf(rom) # 0) =>
         cartridge = Err("InvalidCartridgeMapper")

\* a bare 16-byte header with byte 6 = $10 was refused for its mapper
BareHeaderMapperRefused ==
  /\ phase = "built"
  /\ rom.len = 16
  /\ HasMagic(rom)
  /\ ByteAt(rom, 6) = 16
  /\ ByteAt(rom, 7) = 0
  /\ cartridge = Err("InvalidCartridgeMapper")

\* C10: for every input, Cartridge::new returns a cartridge or one of the three
\* cartridge errors and never aborts; an input with a valid header and mapper
\* id 0 that is shorter than the load offset plus the PRG and CHR banks is
\* returned as an error.
CartridgeNeverAborts ==
  phase = "built" =>
    /\ cartridge.kind \in {"ok", "err"}
    /\ cartridge.kind = "err" =>
         cartridge.error \in {"InvalidCartridgeHeaderSize", "InvalidNesFile",
                              "InvalidCartridgeMapper"}
    /\ (/\ rom.len >= 16 /\ HasMagic(rom) /\ MapperIdOf(rom) = 0
        /\ rom.len < LoadOffset + ByteAt(rom, 4) * PrgBankSize
                                + ByteAt(rom, 5) * ChrBankSize)
         => cartridge.kind = "err"

(***************************************************************************)
(* Properties of the CpuBus                                                *)
(***************************************************************************)
\* the RAM, open-bus and PRG addresses the properties look at
RamProbe == {a \in CpuBus_RAM_ADDRESS_LO..CpuBus_RAM_ADDRESS_HI : a % 2048 \in {0, 1, 2, 1023, 2047}}

OpenProbe == {a \in 16384..32767 : a % 1024 \in {0, 1, 1023}}

PrgProbe ==
  {a \in CARTRIDGE_PRG_ADDRESS_LO..CARTRIDGE_PRG_ADDRESS_HI : a % 4096 \in {0, 1, 4095}}

BusWriteStep(address) ==
  /\ phase = "bus"
  /\ phase' = "bus"
  /\ clocks' = clocks + 1
  /\ call'.op = "write"
  /\ call'.address = address

\* C11: PRG-ROM is immutable after load: whatever CpuBus reads and writes were
\* made, writes to $8000-$FFFF included, prg_read returns for every PRG address
\* the byte the cartridge was loaded with.
PrgRomImmutable ==
  phase = "bus" =>
    \A a \in PrgProbe :
      ~prg_read_panics(cartridge, a) =>
        /\ ~prg_read_panics(cpu_bus.cartridge, a)
        /\ prg_read(cpu_bus.cartridge, a) = prg_read(cartridge, a)
        /\ CpuBusRead(cpu_bus, a) = prg_read(cartridge, a)

\* C12: RAM mirroring: after any sequence of bus writes every address A in
\* $0000-$1FFF reads as A mod $0800 does; a write of v to A makes the four
\* addresses that share A mod $0800 read v and changes no other RAM cell.
RamMirroring ==
  /\ [](phase = "bus" =>
          \A A \in RamProbe : CpuBusRead(cpu_bus, A) = CpuBusRead(cpu_bus, A % 2048))
  /\ [][\A A \in RamProbe :
          BusWriteStep(A) =>
            /\ \A B \in RamProbe :
                 CpuBusRead(cpu_bus', B) =
                   IF B % 2048 = A % 2048 THEN call'.value ELSE CpuBusRead(cpu_bus, B)
            /\ \A k \in 0..3 : CpuBusRead(cpu_bus', (A % 2048) + k * 2048) = call'.value
            /\ cpu_bus'.ram.cells = RamSet(cpu_bus.ram.cells, A % 2048, call'.value)]_vars

\* a write through the second mirror is read back through the first and the last
MirrorWriteReadBack ==
  /\ phase = "bus"
  /\ call.op = "write"
  /\ call.address = 6145
  /\ call.value = 85
  /\ CpuBusRead(cpu_bus, 1) = 85
  /\ CpuBusRead(cpu_bus, 6145 - 4096) = 85
  /\ CpuBusRead(cpu_bus, 2) = 0

\* C13: open bus: every address in $4000-$7FFF reads 0 whatever was done
\* before, and a write to one leaves the RAM, the PPU and the cartridge as they
\* were.
OpenBus ==
  /\ [](phase = "bus" => \A a \in OpenProbe : CpuBusRead(cpu_bus, a) = 0)
  /\ [][\A a \in OpenProbe : BusWriteStep(a) => cpu_bus' = cpu_bus]_vars

\* a non-zero byte was written to $7FFF after a RAM write had taken effect
OpenBusWritten ==
  /\ phase = "bus"
  /\ clocks = 2
  /\ call.op = "write"
  /\ call.address = 32767
  /\ call.value = 255
  /\ CpuBusRead(cpu_bus, 0) = 85
  /\ cpu_bus.cartridge.mapper.prg_banks = 1

\* C14: mapper 0: with two PRG banks a CPU address a in $8000-$FFFF translates
\* to a - $8000, with one bank to (a - $8000) mod $4000, so that $C000-$FFFF
\* reads what $8000-$BFFF reads; either way the offset lies inside the PRG
\* memory.
Mapper0PrgTranslation ==
  phase = "bus" =>
    LET c == cpu_bus.cartridge
        banks == c.mapper.prg_banks
    IN \A a \in PrgProbe :
         /\ banks = 2 => get_prg_address(c.mapper, a) = a - 32768
         /\ banks = 1 =>
              /\ get_prg_address(c.mapper, a) = (a - 32768) % 16384
              /\ a >= 49152 => /\ ~prg_read_panics(c, a)
                               /\ prg_read(c, a) = prg_read(c, a - 16384)
                               /\ CpuBusRead(cpu_bus, a) = CpuBusRead(cpu_bus, a - 16384)
         /\ banks \in {1, 2} =>
              /\ get_prg_address(c.mapper, a) < banks * PrgBankSize
              /\ ~prg_read_panics(c, a)

\* with one bank, $C000 was read and returned the first byte of the bank
MirroredBankRead ==
  /\ phase = "bus"
  /\ cpu_bus.cartridge.mapper.prg_banks = 1
  /\ call.op = "read"
  /\ call.address = 49152
  /\ call.value = 17
  /\ prg_read(cpu_bus.cartridge, 32768) = 17

(***************************************************************************)
(* Properties of the CPU, continued                                        *)
(***************************************************************************)
HasBit(value, flag) == (value \div flag) % 2 = 1

\* the call just made was the clock() call that fetched and executed instruction
Executed(instruction) ==
  /\ call.op = "clock"
  /\ call.fetched
  /\ window.kind = "opcode"
  /\ window.k = 0
  /\ window.instruction = instruction

OpeningStep ==
  /\ trace.kind = "opcode"
  /\ call = NoCall
  /\ call'.op = "clock"
  /\ window'.kind = "opcode"

\* how many operand bytes follow the opcode byte, by addressing mode
OperandBytes(addressing_mode) ==
  CASE addressing_mode \in {"Implied", "Accumulator"} -> 0
    [] addressing_mode \in {"Immediate", "Relative", "ZeroPage", "ZeroPageX",
                            "ZeroPageY", "IndirectX", "IndirectY"} -> 1
    [] addressing_mode \in {"Absolute", "AbsoluteX", "AbsoluteY", "Indirect"} -> 2

\* the opcode the byte at PC decodes to
OpcodeAt(m) == Decode(BusRead(m.bus, m.pc))[1]

\* the condition under which a branch instruction is taken
BranchCondition(instruction, status) ==
  CASE instruction = "BCC" -> ~HasBit(status, CARRY)
    [] instruction = "BCS" -> HasBit(status, CARRY)
    [] instruction = "BEQ" -> HasBit(status, ZERO)
    [] instruction = "BNE" -> ~HasBit(status, ZERO)
    [] instruction = "BMI" -> HasBit(status, NEGATIVE)
    [] instruction = "BPL" -> ~HasBit(status, NEGATIVE)
    [] instruction = "BVC" -> ~HasBit(status, OVERFLOW)
    [] instruction = "BVS" -> HasBit(status, OVERFLOW)

Branches == {"BCC", "BCS", "BEQ", "BNE", "BMI", "BPL", "BVC", "BVS"}

\* the instructions that assign PC themselves
AssignsPc(instruction, status) ==
  \/ instruction \in {"JMP", "JSR", "RTS", "RTI", "BRK"}
  \/ instruction \in Branches /\ BranchCondition(instruction, status)

\* C17 as claimed: the clock() call that fetches a byte that decodes increases
\* PC, modulo 2^16, by the operand-byte count of its addressing mode plus one.
PcAdvancePerInstruction ==
  [][OpeningStep =>
       cpu'.pc = (cpu.pc + OperandBytes(OpcodeAt(cpu).addressing_mode) + 1) % 65536]_vars

\* C17 as amended: the same, for every instruction that does not assign PC
\* itself, that is every one but JMP, JSR, RTS, RTI, BRK and a branch whose
\* condition holds.
PcAdvanceUnlessAssigned ==
  [][(OpeningStep /\ ~AssignsPc(OpcodeAt(cpu).instruction, cpu.status)) =>
       cpu'.pc = (cpu.pc + OperandBytes(OpcodeAt(cpu).addressing_mode) + 1) % 65536]_vars

\* LDA $02FF,X was fetched at $00FE and PC stands three bytes on, in the next page
AbsoluteOperandConsumed ==
  /\ trace.kind = "opcode"
  /\ call.op = "clock"
  /\ trace.byte = 189
  /\ window.instruction = "LDA"
  /\ trace.pc = 254
  /\ cpu.pc = 257
  /\ cpu.absolute_address = 768

\* C19: JMP (ptr): the low byte of the target is read from ptr; the high byte
\* from ptr + 1, unless the low byte of ptr is $FF: then from the start of
\* ptr's page (6C FF 02 with $02FF = $00, $0300 = $40, $0200 = $80 sets
\* PC = $8000).
IndirectJmpPageWrap ==
  [][(OpeningStep /\ OpcodeAt(cpu).instruction = "JMP"
                  /\ OpcodeAt(cpu).addressing_mode = "Indirect") =>
       LET ptr == BusRead(cpu.bus, (cpu.pc + 2) % 65536) * 256
                    + BusRead(cpu.bus, (cpu.pc + 1) % 65536)
           lo == BusRead(cpu.bus, ptr)
           hi == BusRead(cpu.bus, IF ptr % 256 = 255 THEN ptr - 255
                                                     ELSE (ptr + 1) % 65536)
       IN cpu'.pc = hi * 256 + lo]_vars

\* C20: a branch at address a with operand byte o is taken exactly when its
\* flag condition holds; taken, PC = a + 2 + o (o sign-extended) modulo 2^16,
\* otherwise PC = a + 2; no register, flag or memory cell but PC and the
\* scratch addresses changes.
BranchSemantics ==
  [][(OpeningStep /\ OpcodeAt(cpu).instruction \in Branches) =>
       LET a == cpu.pc
           o == BusRead(cpu.bus, (a + 1) % 65536)
           offset == IF o >= 128 THEN o - 256 ELSE o
       IN /\ OpcodeAt(cpu).addressing_mode = "Relative"
          /\ cpu'.pc = IF BranchCondition(OpcodeAt(cpu).instruction, cpu.status)
                       THEN (a + 2 + offset + 65536) % 65536
                       ELSE (a + 2) % 65536
          /\ cpu'.a = cpu.a /\ cpu'.x = cpu.x /\ cpu'.y = cpu.y
          /\ cpu'.sp = cpu.sp /\ cpu'.status = cpu.status
          /\ cpu'.bus = cpu.bus
          /\ cpu'.writes = <<>>]_vars

\* BNE at $0000 with operand $80 and Z clear went back across address 0
BackwardBranchTaken ==
  /\ trace.kind = "opcode"
  /\ call.op = "clock"
  /\ window.instruction = "BNE"
  /\ trace.pc = 0
  /\ trace.o1 = 128
  /\ ~HasBit(cpu.status, ZERO)
  /\ cpu.pc = 65410

\* C18 as claimed: ADC M and then SBC M, with the carry the ADC left, leave the
\* accumulator as it was, whatever A, M and the initial carry were.
AdcSbcInverse == phase = "subtracted" => cpu.a = trace.a

\* C18 as amended: ADC M and then SBC M leave (A + C + C' - 1) mod 256 in the
\* accumulator, C the initial carry and C' the carry out of the addition: A is
\* restored exactly when one of C and C' is set and the other clear.
AdcSbcInverseUpToCarry ==
  [][(phase = "added" /\ phase' = "subtracted") =>
       LET c == IF HasBit(trace.carry, CARRY) THEN 1 ELSE 0
           c1 == IF HasBit(cpu.status, CARRY) THEN 1 ELSE 0
       IN /\ c1 = (IF trace.a + trace.value + c > 255 THEN 1 ELSE 0)
          /\ cpu'.a = (trace.a + c + c1 + 255) % 256
          /\ (cpu'.a = trace.a) <=> (c + c1 = 1)]_vars

\* $C8 + $64 carried out with the carry clear before, and $C8 is back
AccumulatorRestored ==
  /\ phase = "subtracted"
  /\ trace.kind = "alu"
  /\ trace.a = 200
  /\ trace.value = 100
  /\ trace.carry = 0
  /\ cpu.a = 200

Bit7(value) == value >= 128

\* C24: ADC against the 8-bit reference, for every A, M and carry in: with
\* r = A + M + C the new A is r mod 256, C is set iff r > 255, V iff A and M
\* agree in bit 7 and the new A differs from them, Z iff the new A is 0, N is
\* bit 7 of the new A; D set or clear makes no difference, D and I stay.
AdcReference ==
  [][(phase = "alu" /\ phase' = "added") =>
       LET c == IF HasBit(trace.status, CARRY) THEN 1 ELSE 0
           r == trace.a + trace.value + c
       IN /\ cpu'.a = r % 256
          /\ HasBit(cpu'.status, CARRY) <=> r > 255
          /\ HasBit(cpu'.status, OVERFLOW) <=>
               (Bit7(trace.a) = Bit7(trace.value) /\ Bit7(r % 256) # Bit7(trace.a))
          /\ HasBit(cpu'.status, ZERO) <=> r % 256 = 0
          /\ HasBit(cpu'.status, NEGATIVE) <=> Bit7(r % 256)
          /\ HasBit(cpu'.status, DECIMAL) <=> HasBit(trace.status, DECIMAL)
          /\ HasBit(cpu'.status, INTERRUPT) <=> HasBit(trace.status, INTERRUPT)
          /\ HasBit(cpu'.status, UNUSED) /\ ~HasBit(cpu'.status, BREAK)]_vars

\* $50 + $50 with D set gave the binary sum $A0 with V set and C clear
AdcOverflowedInDecimal ==
  /\ phase = "added"
  /\ trace.kind = "alu"
  /\ trace.a = 80
  /\ trace.value = 80
  /\ trace.status = UNUSED + DECIMAL
  /\ cpu.a = 160
  /\ HasBit(cpu.status, OVERFLOW)
  /\ ~HasBit(cpu.status, CARRY)

\* C25: SBC against the 8-bit reference, for every A, M and carry in: with
\* r = A - M - (1 - C) the new A is r mod 256, C is set iff r >= 0, V iff A and
\* M differ in bit 7 and A and the new A differ in bit 7, Z iff the new A is 0,
\* N is bit 7 of the new A; these are the A, C, V, Z, N of ADC of 255 - M.
SbcReference ==
  [][(phase = "alu" /\ phase' = "subtracted_only") =>
       LET c == IF HasBit(trace.status, CARRY) THEN 1 ELSE 0
           r == trace.a - trace.value - (1 - c)
           new_a == (r + 256) % 256
           r2 == trace.a + (255 - trace.value) + c
       IN /\ cpu'.a = new_a
          /\ HasBit(cpu'.status, CARRY) <=> r >= 0
          /\ HasBit(cpu'.status, OVERFLOW) <=>
               (Bit7(trace.a) # Bit7(trace.value) /\ Bit7(new_a) # Bit7(trace.a))
          /\ HasBit(cpu'.status, ZERO) <=> new_a = 0
          /\ HasBit(cpu'.status, NEGATIVE) <=> Bit7(new_a)
          /\ cpu'.a = r2 % 256
          /\ HasBit(cpu'.status, CARRY) <=> r2 > 255
          /\ HasBit(cpu'.status, OVERFLOW) <=>
               (Bit7(trace.a) = Bit7(255 - trace.value)
                /\ Bit7(r2 % 256) # Bit7(trace.a))]_vars

\* $00 - $01 with the carry set borrowed: $FF, C clear, N set, V clear
SbcBorrowed ==
  /\ phase = "subtracted_only"
  /\ trace.kind = "alu"
  /\ trace.a = 0
  /\ trace.value = 1
  /\ trace.status = UNUSED + CARRY
  /\ cpu.a = 255
  /\ ~HasBit(cpu.status, CARRY)
  /\ HasBit(cpu.status, NEGATIVE)
  /\ ~HasBit(cpu.status, OVERFLOW)

\* the opening clock() call of a run fetches this instruction
Opens(instruction) == OpeningStep /\ OpcodeAt(cpu).instruction = instruction

StackAddress(sp) == 256 + ((sp + 256) % 256)

\* C23: BRK at a with SP = s and status f writes the high byte of a + 2 to
\* $0100 + s, its low byte to $0100 + (s - 1) mod 256 and f|B|U to
\* $0100 + (s - 2) mod 256; then SP = (s - 3) mod 256, I is set, B is clear in
\* the status register, the other flags and A, X, Y are as before, and PC is
\* the word stored at $FFFE/$FFFF.
BrkSemantics ==
  [][Opens("BRK") =>
       LET a == cpu.pc
           s == cpu.sp
           f == cpu.status
           return == (a + 2) % 65536
           pushed == f + (IF HasBit(f, BREAK) THEN 0 ELSE BREAK)
                       + (IF HasBit(f, UNUSED) THEN 0 ELSE UNUSED)
       IN /\ cpu'.writes = << <<StackAddress(s), return \div 256>>,
                              <<StackAddress(s - 1), return % 256>>,
                              <<StackAddress(s - 2), pushed>> >>
          /\ cpu'.sp = (s + 253) % 256
          /\ cpu'.status = f + (IF HasBit(f, INTERRUPT) THEN 0 ELSE INTERRUPT)
          /\ ~HasBit(cpu'.status, BREAK)
          /\ cpu'.a = cpu.a /\ cpu'.x = cpu.x /\ cpu'.y = cpu.y
          /\ cpu'.pc = WordAt(cpu'.bus, IRQ_VECTOR_ADDRESS_LO, IRQ_VECTOR_ADDRESS_HI)]_vars


\* the byte the bus returns at the effective address the opening call computed
OperandRead(before, after) == BusRead(before.bus, after.absolute_address)

\* the value an instruction has written, to its register or to its memory cell
WrittenValue(instruction, addressing_mode, after) ==
  CASE instruction \in {"LDA", "TXA", "TYA", "AND", "ORA", "EOR", "ADC", "SBC",
                        "PLA"} -> after.a
    [] instruction \in {"LDX", "TAX", "TSX", "INX", "DEX"} -> after.x
    [] instruction \in {"LDY", "TAY", "INY", "DEY"} -> after.y
    [] instruction \in {"INC", "DEC"} -> RamCell(after.bus, after.absolute_address)
    [] instruction \in {"ASL", "LSR", "ROL", "ROR"} ->
         IF addressing_mode = "Accumulator"
         THEN after.a
         ELSE RamCell(after.bus, after.absolute_address)

\* the register a compare instruction compares
ComparedRegister(instruction, before) ==
  CASE instruction = "CMP" -> before.a
    [] instruction = "CPX" -> before.x
    [] instruction = "CPY" -> before.y

\* C26: Z/N discipline: after a load, a transfer other than TXS, INX, INY, DEX,
\* DEY, INC, DEC, AND, ORA, EOR, ADC, SBC, a shift or rotate and PLA, Z is set
\* iff the value written to the destination register or memory cell is zero
\* and N is bit 7 of that value; after CMP, CPX, CPY, Z and N are those of
\* (register - operand) mod 256; after BIT, Z is set iff A & M = 0, N is bit 7
\* of M, V is bit 6 of M, and A is unchanged.
ZeroNegativeDiscipline ==
  [][OpeningStep =>
       LET instruction == OpcodeAt(cpu).instruction
           addressing_mode == OpcodeAt(cpu).addressing_mode
       IN /\ instruction \in {"LDA", "LDX", "LDY", "TAX", "TAY", "TXA", "TYA",
                              "TSX", "INX", "INY", "DEX", "DEY", "INC", "DEC",
                              "AND", "ORA", "EOR", "ADC", "SBC", "ASL", "LSR",
                              "ROL", "ROR", "PLA"} =>
               LET value == WrittenValue(instruction, addressing_mode, cpu')
               IN /\ value \in Byte
                  /\ HasBit(cpu'.status, ZERO) <=> value = 0
                  /\ HasBit(cpu'.status, NEGATIVE) <=> Bit7(value)
                  /\ (instruction \in {"INC", "DEC"}
                      \/ (instruction \in {"ASL", "LSR", "ROL", "ROR"}
                          /\ addressing_mode # "Accumulator")) =>
                       cpu'.writes = << <<cpu'.absolute_address, value>> >>
          /\ instruction \in {"CMP", "CPX", "CPY"} =>
               LET difference ==
                     (ComparedRegister(instruction, cpu) + 256
                        - OperandRead(cpu, cpu')) % 256
               IN /\ HasBit(cpu'.status, ZERO) <=> difference = 0
                  /\ HasBit(cpu'.status, NEGATIVE) <=> Bit7(difference)
          /\ instruction = "BIT" =>
               LET M == OperandRead(cpu, cpu')
               IN /\ HasBit(cpu'.status, ZERO) <=> BitAnd(cpu.a, M) = 0
                  /\ HasBit(cpu'.status, NEGATIVE) <=> Bit7(M)
                  /\ HasBit(cpu'.status, OVERFLOW) <=> HasBit(M, OVERFLOW)
                  /\ cpu'.a = cpu.a]_vars

\* BIT $FE with A = $80 and M = $40, all of Z, V, N clear before: A & M = 0 set
\* Z, bit 6 of M set V, N stayed clear although A is negative
BitTestedMemory ==
  /\ Executed("BIT")
  /\ trace.byte = 36
  /\ trace.o1 = 254
  /\ trace.a = 128
  /\ trace.status = UNUSED + CARRY
  /\ cpu.a = 128
  /\ cpu.status = UNUSED + CARRY + ZERO + OVERFLOW

\* the status bytes differ in no flag of the set
SameFlags(before, after, flags) ==
  \A flag \in flags : HasBit(before, flag) <=> HasBit(after, flag)

AllFlags == {CARRY, ZERO, INTERRUPT, DECIMAL, BREAK, UNUSED, OVERFLOW, NEGATIVE}

\* C27: flag ownership: loads, transfers, INX, INY, DEX, DEY, INC, DEC, AND,
\* ORA, EOR and PLA leave C, V, I and D unchanged; STA, STX, STY, TXS, PHA, PHP,
\* NOP, JMP, JSR, RTS and the branches leave the whole status register
\* unchanged; CMP, CPX, CPY and the shifts and rotates leave V, I and D
\* unchanged; CLC, SEC, CLD, SED, CLI, SEI and CLV change only their own flag.
FlagOwnership ==
  [][OpeningStep =>
       LET instruction == OpcodeAt(cpu).instruction
       IN /\ instruction \in {"LDA", "LDX", "LDY", "TAX", "TAY", "TXA", "TYA",
                              "TSX", "TXS", "INX", "INY", "DEX", "DEY", "INC",
                              "DEC", "AND", "ORA", "EOR", "PLA"} =>
               SameFlags(cpu.status, cpu'.status,
                         {CARRY, OVERFLOW, INTERRUPT, DECIMAL})
          /\ instruction \in {"STA", "STX", "STY", "TXS", "PHA", "PHP", "NOP",
                              "JMP", "JSR", "RTS"} \cup Branches =>
               cpu'.status = cpu.status
          /\ instruction \in {"CMP", "CPX", "CPY", "ASL", "LSR", "ROL", "ROR"} =>
               SameFlags(cpu.status, cpu'.status, {OVERFLOW, INTERRUPT, DECIMAL})
          /\ instruction \in {"CLC", "SEC"} =>
               SameFlags(cpu.status, cpu'.status, AllFlags \ {CARRY})
          /\ instruction \in {"CLD", "SED"} =>
               SameFlags(cpu.status, cpu'.status, AllFlags \ {DECIMAL})
          /\ instruction \in {"CLI", "SEI"} =>
               SameFlags(cpu.status, cpu'.status, AllFlags \ {INTERRUPT})
          /\ instruction = "CLV" =>
               SameFlags(cpu.status, cpu'.status, AllFlags \ {OVERFLOW})]_vars

\* CLV with I, D and V set cleared V and left I and D set
ClvClearedOverflowOnly ==
  /\ Executed("CLV")
  /\ trace.status = UNUSED + INTERRUPT + DECIMAL + OVERFLOW
  /\ cpu.status = UNUSED + INTERRUPT + DECIMAL

\* C28: zero-page wrapping: with operand byte o, ZeroPageX yields the address
\* (o + X) mod 256 and ZeroPageY (o + Y) mod 256, both in $0000-$00FF;
\* IndirectX reads its pointer's low byte at (o + X) mod 256 and its high byte
\* at (o + X + 1) mod 256; IndirectY reads its pointer's low byte at o and its
\* high byte at (o + 1) mod 256 and yields (pointer + Y) mod 2^16.
ZeroPageWrapping ==
  [][OpeningStep =>
       LET addressing_mode == OpcodeAt(cpu).addressing_mode
           o == BusRead(cpu.bus, (cpu.pc + 1) % 65536)
           pointer_at(lo, hi) == BusRead(cpu.bus, lo) + 256 * BusRead(cpu.bus, hi)
       IN /\ addressing_mode = "ZeroPageX" =>
               /\ cpu'.absolute_address = (o + cpu.x) % 256
               /\ cpu'.absolute_address \in 0..255
          /\ addressing_mode = "ZeroPageY" =>
               /\ cpu'.absolute_address = (o + cpu.y) % 256
               /\ cpu'.absolute_address \in 0..255
          /\ addressing_mode = "IndirectX" =>
               /\ Len(cpu'.reads) >= 4
               /\ cpu'.reads[3] = (o + cpu.x) % 256
               /\ cpu'.reads[4] = (o + cpu.x + 1) % 256
               /\ cpu'.absolute_address =
                    pointer_at((o + cpu.x) % 256, (o + cpu.x + 1) % 256)
          /\ addressing_mode = "IndirectY" =>
               /\ Len(cpu'.reads) >= 4
               /\ cpu'.reads[3] = o
               /\ cpu'.reads[4] = (o + 1) % 256
               /\ cpu'.absolute_address =
                    (pointer_at(o, (o + 1) % 256) + cpu.y) % 65536]_vars

\* LDA $FF,X with X = 1 read $0000, not $0100
ZeroPageXWrapped ==
  /\ Executed("LDA")
  /\ trace.byte = 181
  /\ trace.o1 = 255
  /\ trace.x = 1
  /\ cpu.absolute_address = 0
  /\ cpu.reads = <<1024, 1025, 0>>
  /\ cpu.a = 4

\* the clock() call being made fetches this instruction, and the call that
\* opened the window before it was of this kind
FetchesAfter(instruction, kinds) ==
  /\ trace.kind = "return"
  /\ window.kind \in kinds
  /\ call'.op = "clock"
  /\ call'.fetched
  /\ window'.kind = "opcode"
  /\ window'.instruction = instruction

\* C21: interrupt return round trip: a serviced interrupt (nmi(), or irq() when
\* it writes the stack) followed, with no instruction in between, by the
\* execution of RTI restores PC, SP and the whole status register, I included,
\* to their values before the interrupt.
InterruptReturnRoundTrip ==
  [][/\ (trace.kind = "return" /\ call = NoCall /\ call'.op = "nmi") =>
          /\ Len(cpu'.writes) = 3
          /\ cpu'.sp = (cpu.sp + 253) % 256
     /\ (trace.kind = "return" /\ call = NoCall /\ call'.op = "irq") =>
          \/ cpu' = Enter(cpu)
          \/ /\ Len(cpu'.writes) = 3
             /\ cpu'.sp = (cpu.sp + 253) % 256
     /\ FetchesAfter("RTI", {"nmi", "irq"}) =>
          /\ cpu'.pc = trace.pc
          /\ cpu'.sp = trace.sp
          /\ cpu'.status = trace.status
          /\ cpu'.writes = <<>>]_vars

\* nmi() at PC = $077D with SP = $01 and I clear, N and C set, pushed at $0101,
\* $0100 and $01FF; the RTI at the handler restored all three
NmiReturned ==
  /\ Executed("RTI")
  /\ window.closed.kind = "nmi"
  /\ trace.pc = 1917
  /\ trace.sp = 1
  /\ trace.status = UNUSED + CARRY + NEGATIVE
  /\ cpu.pc = 1917
  /\ cpu.sp = 1
  /\ cpu.status = UNUSED + CARRY + NEGATIVE
  /\ cpu.reads = <<InterruptHandlerAddress, 511, 256, 257>>

\* C22: subroutine round trip: a JSR at a with SP = s writes the high byte of
\* a + 2 to $0100 + s and its low byte to $0100 + (s - 1) mod 256, sets
\* SP = (s - 2) mod 256 and PC = the operand address; an RTS executed next sets
\* PC = (a + 3) mod 2^16 and SP = s and changes no flag.
SubroutineRoundTrip ==
  [][/\ FetchesAfter("JSR", {"none"}) =>
          LET a == cpu.pc
              s == cpu.sp
              return == (a + 2) % 65536
          IN /\ a = trace.pc /\ s = trace.sp
             /\ cpu'.writes = << <<StackAddress(s), return \div 256>>,
                                 <<StackAddress(s - 1), return % 256>> >>
             /\ cpu'.sp = (s + 254) % 256
             /\ cpu'.pc = BusRead(cpu.bus, (a + 1) % 65536)
                            + 256 * BusRead(cpu.bus, (a + 2) % 65536)
             /\ cpu'.pc = trace.target
             /\ cpu'.status = cpu.status
     /\ (FetchesAfter("RTS", {"opcode"}) /\ window.instruction = "JSR") =>
          /\ cpu'.pc = (trace.pc + 3) % 65536
          /\ cpu'.sp = trace.sp
          /\ cpu'.status = cpu.status
          /\ cpu'.status = trace.status
          /\ cpu'.writes = <<>>]_vars

\* JSR $0234 at $0400 with SP = $00 pushed $04 at $0100 and $02 at $01FF; the
\* RTS at $0234 came back to $0403 with SP = $00
SubroutineReturned ==
  /\ Executed("RTS")
  /\ window.closed.instruction = "JSR"
  /\ trace.pc = 1024
  /\ trace.sp = 0
  /\ trace.target = 564
  /\ cpu.pc = 1027
  /\ cpu.sp = 0
  /\ cpu.status = trace.status
  /\ RamCell(cpu.bus, 256) = 4
  /\ RamCell(cpu.bus, 511) = 2
  /\ cpu.reads = <<564, 511, 256>>
====
